---------------------------- MODULE Spec2Model ----------------------------
(***************************************************************************)
(* A model of pisa.core.map: the Map histogram container and the MapSet    *)
(* collection built on it (src/pisa/core/map.py).                          *)
(*                                                                         *)
(* The heap of the program is modelled by three append-only tables:        *)
(*   bufs  the numpy array buffers (a Map's hist is a view on one of them) *)
(*   maps  the Map objects, origin[i] being the call that made maps[i]     *)
(*   sets  the MapSet objects                                              *)
(* gens holds the generators made by iterbins / iterindices, disk the last *)
(* state written by to_json, calls the number of calls made so far that    *)
(* make or change an object, and ret what the last call was and what it    *)
(* returned or raised.                                                     *)
(***************************************************************************)
EXTENDS Integers, Sequences, FiniteSets, TLC

VARIABLES bufs, maps, origin, sets, gens, disk, calls, ret

vars == <<bufs, maps, origin, sets, gens, disk, calls, ret>>

(***************************************************************************)
(* Bounds of the model.                                                    *)
(***************************************************************************)
\* The largest number of calls in one behaviour that make or change an
\* object (the calls that only read, and the steps of a generator, are not
\* counted).
MaxCalls == 3
\* The largest number of generators made by iterbins and iterindices.
MaxGens == 1
\* The bins of the energy axis and of the coszen axis of the largest binning.
NumE == 2
NumCz == 2

(***************************************************************************)
(* Optional values: None is the empty tuple, a present value a 1-tuple.    *)
(***************************************************************************)
None == <<>>
Some(x) == <<x>>

(***************************************************************************)
(* Numbers.  A float is modelled by the exact rational it stands for, a    *)
(* pair <<n, d>> in lowest terms with d > 0.  The results IEEE arithmetic  *)
(* gives for a division by zero are kept: <<1, 0>> is inf, <<-1, 0>> is    *)
(* -inf and <<0, 0>> is nan.  A square root that is not rational, which    *)
(* is the triple <<n, d, 2>> standing for sqrt(n/d), and a logarithm that *)
(* is not rational the triple <<n, d, 1>> for ln(n/d) or <<n, d, 10>> for  *)
(* log10(n/d); no arithmetic is done on the triples but the square of a    *)
(* square root.                                                            *)
(***************************************************************************)
Abs(x) == IF x < 0 THEN -x ELSE x

Sign(x) == IF x < 0 THEN -1 ELSE IF x > 0 THEN 1 ELSE 0

RECURSIVE GCD(_, _)
GCD(a, b) == IF b = 0 THEN a ELSE GCD(b, a % b)

Q(n, d) ==
    IF d = 0 THEN <<Sign(n), 0>>
    ELSE LET g == GCD(Abs(n), Abs(d))
             s == IF d < 0 THEN -1 ELSE 1
         IN  <<(s * n) \div g, (s * d) \div g>>

Num(k) == <<k, 1>>

NaN == <<0, 0>>

IsNaN(x) == x = NaN

IsFinite(x) == x[2] # 0

QAdd(x, y) ==
    IF IsFinite(x) /\ IsFinite(y) THEN Q(x[1] * y[2] + y[1] * x[2], x[2] * y[2])
    ELSE IF IsNaN(x) \/ IsNaN(y) THEN NaN
    ELSE IF IsFinite(x) THEN y
    ELSE IF IsFinite(y) THEN x
    ELSE IF x = y THEN x ELSE NaN

QNeg(x) == <<-x[1], x[2]>>

QSub(x, y) == QAdd(x, QNeg(y))

QMul(x, y) ==
    IF IsFinite(x) /\ IsFinite(y) THEN Q(x[1] * y[1], x[2] * y[2])
    ELSE IF IsNaN(x) \/ IsNaN(y) \/ x[1] = 0 \/ y[1] = 0 THEN NaN
    ELSE <<Sign(x[1]) * Sign(y[1]), 0>>

QInv(x) ==
    IF IsFinite(x) THEN Q(x[2], x[1])
    ELSE IF IsNaN(x) THEN NaN ELSE Num(0)

\* x / y as numpy computes it on floats: x / 0 is inf, -inf or nan.
QDiv(x, y) ==
    IF IsFinite(x) /\ IsFinite(y) /\ y[1] = 0 THEN <<Sign(x[1]), 0>>
    ELSE QMul(x, QInv(y))

QAbs(x) == <<Abs(x[1]), x[2]>>

\* x == y on floats: nan equals nothing, itself included.
QEq(x, y) == ~IsNaN(x) /\ ~IsNaN(y) /\ x = y

RECURSIVE ISqrtFrom(_, _)
ISqrtFrom(n, k) == IF (k + 1) * (k + 1) > n THEN k ELSE ISqrtFrom(n, k + 1)

ISqrt(n) == ISqrtFrom(n, 0)

IsSquare(n) == n >= 0 /\ ISqrt(n) * ISqrt(n) = n

\* np.sqrt of a float: nan below zero, the exact root when it is rational,
\* else the surd.
QSqrt(x) ==
    IF ~IsFinite(x) THEN (IF x[1] = 1 THEN x ELSE NaN)
    ELSE IF x[1] < 0 THEN NaN
    ELSE IF IsSquare(x[1]) /\ IsSquare(x[2]) THEN <<ISqrt(x[1]), ISqrt(x[2])>>
    ELSE <<x[1], x[2], 2>>

\* np.log and np.log10 of a float (base 1 stands for e): -inf at zero, nan
\* below it, the exact logarithm when it is rational, else the triple.
RECURSIVE Log10From(_, _)
Log10From(n, k) == IF n = 1 THEN k ELSE IF n % 10 # 0 THEN -1 ELSE Log10From(n \div 10, k + 1)

QLog(x, base) ==
    IF ~IsFinite(x) THEN (IF x[1] = 1 THEN x ELSE NaN)
    ELSE IF x[1] < 0 THEN NaN
    ELSE IF x[1] = 0 THEN <<-1, 0>>
    ELSE IF x = Num(1) THEN Num(0)
    ELSE IF base = 10 /\ x[2] = 1 /\ Log10From(x[1], 0) > 0 THEN Num(Log10From(x[1], 0))
    ELSE <<x[1], x[2], base>>

\* The square of a number that is a rational or a surd.
QSquare(x) == IF Len(x) = 3 THEN <<x[1], x[2]>> ELSE QMul(x, x)


(***************************************************************************)
(* normQuant(x, sigfigs) of pisa.utils.numerical rounds x to sigfigs       *)
(* significant decimal figures.  The rounded value is the decimal float    *)
(* <<sign, exponent, digits>>, computed by long division; the rounded     *)
(* value of a triple is given by its rounded argument and its mark.        *)
(***************************************************************************)
HASH_SIGFIGS == 12

RECURSIVE Exponent(_, _, _)
\* The e with 10^e <= a/b < 10^(e+1), for a, b > 0.
Exponent(a, b, e) ==
    IF a < b THEN Exponent(a * 10, b, e - 1)
    ELSE IF a >= 10 * b THEN Exponent(a, b * 10, e + 1)
    ELSE e

RECURSIVE Scaled(_, _)
\* a/b scaled by a power of ten into [1, 10).
Scaled(a, b) ==
    IF a < b THEN Scaled(a * 10, b)
    ELSE IF a >= 10 * b THEN Scaled(a, b * 10)
    ELSE <<a, b>>

RECURSIVE Digits(_, _, _)
\* The first k decimal digits of a/b, for a/b < 10.
Digits(a, b, k) ==
    IF k = 0 THEN <<>>
    ELSE <<a \div b>> \o Digits(10 * (a % b), b, k - 1)

RECURSIVE Carry(_)
\* ds + 1 on a digit sequence; a leading 10 tells an overflow.
Carry(ds) ==
    IF Len(ds) = 0 THEN <<>>
    ELSE LET k == Len(ds) IN
         IF ds[k] < 9 THEN [ds EXCEPT ![k] = ds[k] + 1]
         ELSE IF k = 1 THEN <<10>>
         ELSE LET up == Carry(SubSeq(ds, 1, k - 1)) IN
              IF up[1] = 10 THEN <<10>> ELSE up \o <<0>>

RoundDigits(x, sigfigs) ==
    LET ab   == Scaled(Abs(x[1]), x[2])
        e    == Exponent(Abs(x[1]), x[2], 0)
        ds   == Digits(ab[1], ab[2], sigfigs + 1)
        kept == SubSeq(ds, 1, sigfigs)
        up   == IF ds[sigfigs + 1] >= 5 THEN Carry(kept) ELSE kept
    IN  IF up = <<10>>
        THEN <<Sign(x[1]), e + 1, <<1>> \o [i \in 1..(sigfigs - 1) |-> 0]>>
        ELSE <<Sign(x[1]), e, up>>

normQuant(x, sigfigs) ==
    IF Len(x) = 3 THEN RoundDigits(<<x[1], x[2]>>, sigfigs) \o <<x[3]>>
    ELSE IF ~IsFinite(x) THEN x
    ELSE IF x[1] = 0 THEN <<0, 0, <<>>>>
    ELSE RoundDigits(x, sigfigs)

(***************************************************************************)
(* numpy arrays.  An array is [sh, unc, c]: sh its shape (a tuple of 0, 1  *)
(* or 2 sizes), c its elements in row-major order, unc whether it is an    *)
(* object array of uncertainties values (made by unumpy.uarray) or a bare  *)
(* float array.  An element is [n, d]: n the nominal value, d the set of   *)
(* <<variable, derivative, variance of the variable>> triples of the       *)
(* linear error propagation uncertainties keeps for it (empty for a float).*)
(***************************************************************************)
Size(sh) == IF Len(sh) = 0 THEN 1 ELSE IF Len(sh) = 1 THEN sh[1] ELSE sh[1] * sh[2]

\* Rows and columns of a shape read as two-dimensional.
Rows(sh) == IF Len(sh) = 2 THEN sh[1] ELSE 1

Cols(sh) == IF Len(sh) = 2 THEN sh[2] ELSE IF Len(sh) = 1 THEN sh[1] ELSE 1

Float(x) == [n |-> x, d |-> {}]

\* A bare float array of the given shape, from its elements in row-major order.
Arr(sh, xs) == [sh |-> sh, unc |-> FALSE, c |-> [i \in 1..Size(sh) |-> Float(xs[i])]]

\* np.ones(sh) * x
Fill(sh, x) == Arr(sh, [i \in 1..Size(sh) |-> x])

\* A Python scalar, as numpy broadcasts it.
Scalar(x) == Arr(<<>>, <<x>>)

RECURSIVE SumVar(_)
SumVar(D) ==
    IF D = {} THEN Num(0)
    ELSE LET t == CHOOSE t \in D : TRUE
         IN  QAdd(QMul(QMul(t[2], t[2]), t[3]), SumVar(D \ {t}))

\* x.std_dev of uncertainties: the root of the sum of (derivative * sigma)^2.
StdDev(x) == QSqrt(SumVar(x.d))

\* unumpy.nominal_values and unumpy.std_devs: bare float arrays.
nominal_values(A) == [sh |-> A.sh, unc |-> FALSE, c |-> [i \in DOMAIN A.c |-> Float(A.c[i].n)]]

std_devs(A) == [sh |-> A.sh, unc |-> FALSE, c |-> [i \in DOMAIN A.c |-> Float(StdDev(A.c[i]))]]

\* unumpy.uarray(nominal, std): one fresh Variable per element, named by the
\* buffer b the result is stored in.  Variable(value, std) takes float(value),
\* which uncertainties refuses for a value that already carries an uncertainty.
\* std is an array of the shape of nominal or a scalar.
uarray(nominal, std, b) ==
    IF nominal.unc \/ std.unc THEN [err |-> "TypeError"]
    ELSE [err |-> "",
          arr |-> [sh |-> nominal.sh, unc |-> TRUE,
                   c |-> [i \in DOMAIN nominal.c |->
                            LET s  == std.c[IF Len(std.sh) = 0 THEN 1 ELSE i].n
                                s2 == QSquare(s)
                            IN  [n |-> nominal.c[i].n,
                                 d |-> IF s2 = Num(0) THEN {}
                                       ELSE {<<<<b, i>>, Num(1), s2>>}]]]]

\* uncertainties.ufloat(x, s): a Variable of its own, named by tag.
ufloat(x, s, tag) ==
    [sh |-> <<>>, unc |-> TRUE,
     c |-> <<[n |-> x, d |-> IF s = Num(0) THEN {} ELSE {<<<<0, tag>>, Num(1), QSquare(s)>>}]>>]

(***************************************************************************)
(* Element-wise arithmetic with first-order error propagation.             *)
(***************************************************************************)
Ids(D) == {t[1] : t \in D}

Der(D, id) == IF id \in Ids(D) THEN (CHOOSE t \in D : t[1] = id)[2] ELSE Num(0)

VarOf(D1, D2, id) ==
    IF id \in Ids(D1) THEN (CHOOSE t \in D1 : t[1] = id)[3]
    ELSE (CHOOSE t \in D2 : t[1] = id)[3]

\* The derivatives of a1 * x + a2 * y.
Lin(D1, a1, D2, a2) ==
    LET raw == {<<id, QAdd(QMul(a1, Der(D1, id)), QMul(a2, Der(D2, id))), VarOf(D1, D2, id)>> :
                    id \in Ids(D1) \cup Ids(D2)}
    IN  {t \in raw : t[2] # Num(0)}

\* The arithmetic of two array elements were a product to keep the
\* uncertainties of its factors unscaled.
ElemOpUnscaled(op, x, y) ==
    CASE op = "add" -> [n |-> QAdd(x.n, y.n), d |-> Lin(x.d, Num(1), y.d, Num(1))]
      [] op = "sub" -> [n |-> QSub(x.n, y.n), d |-> Lin(x.d, Num(1), y.d, Num(-1))]
      [] op = "mul" -> [n |-> QMul(x.n, y.n), d |-> Lin(x.d, Num(1), y.d, Num(1))]
      [] op = "div" -> [n |-> QDiv(x.n, y.n),
                        d |-> Lin(x.d, QInv(y.n), y.d, QNeg(QDiv(x.n, QMul(y.n, y.n))))]

ElemOp(op, x, y) ==
    CASE op = "add" -> [n |-> QAdd(x.n, y.n), d |-> Lin(x.d, Num(1), y.d, Num(1))]
      [] op = "sub" -> [n |-> QSub(x.n, y.n), d |-> Lin(x.d, Num(1), y.d, Num(-1))]
      [] op = "mul" -> [n |-> QMul(x.n, y.n), d |-> Lin(x.d, y.n, y.d, x.n)]
      [] op = "div" -> [n |-> QDiv(x.n, y.n),
                        d |-> Lin(x.d, QInv(y.n), y.d, QNeg(QDiv(x.n, QMul(y.n, y.n))))]

\* x ** k for a whole number k.
RECURSIVE QPow(_, _)
QPow(x, k) ==
    IF k = 0 THEN Num(1)
    ELSE IF k < 0 THEN QInv(QPow(x, -k))
    ELSE QMul(x, QPow(x, k - 1))

\* x ** y of two array elements, y a float that holds a whole number: the
\* value is x ** y and the derivative by x is y * x ** (y - 1).
ElemPow(x, y) ==
    [n |-> QPow(x.n, y.n[1]),
     d |-> Lin(x.d, QMul(y.n, QPow(x.n, y.n[1] - 1)), {}, Num(0))]

\* The exponents the model raises to: floats that hold a whole number.
WholePowers(B) == ~B.unc /\ \A i \in DOMAIN B.c : B.c[i].n[2] = 1

\* numpy broadcasting of two shapes of at most two dimensions.
Pad(sh) == IF Len(sh) = 2 THEN sh ELSE <<1, Cols(sh)>>

Broadcastable(s1, s2) ==
    \A k \in 1..2 : Pad(s1)[k] = Pad(s2)[k] \/ Pad(s1)[k] = 1 \/ Pad(s2)[k] = 1

Max(a, b) == IF a >= b THEN a ELSE b

BroadcastShape(s1, s2) ==
    LET full == <<Max(Pad(s1)[1], Pad(s2)[1]), Max(Pad(s1)[2], Pad(s2)[2])>>
        nd   == Max(Len(s1), Len(s2))
    IN  IF nd = 2 THEN full ELSE IF nd = 1 THEN <<full[2]>> ELSE <<>>

\* The element of A that broadcasting pairs with element i of the result.
BroadcastElem(A, sh, i) ==
    LET r  == (i - 1) \div Cols(sh)
        c  == (i - 1) % Cols(sh)
        ra == IF Rows(A.sh) = 1 THEN 0 ELSE r
        ca == IF Cols(A.sh) = 1 THEN 0 ELSE c
    IN  A.c[ra * Cols(A.sh) + ca + 1]

\* A op B on arrays (a scalar is an array of shape ()).  Shapes that do not
\* broadcast raise ValueError; a division by zero raises ZeroDivisionError
\* when uncertainties computes it, and gives inf or nan when numpy does.
\* np.power(A, B) is the op "pow".
ArrayOp(op, A, B) ==
    IF ~Broadcastable(A.sh, B.sh) THEN [err |-> "ValueError"]
    ELSE LET sh  == BroadcastShape(A.sh, B.sh)
             unc == A.unc \/ B.unc
         IN  IF /\ op = "div"
                /\ unc
                /\ \E i \in 1..Size(sh) : BroadcastElem(B, sh, i).n = Num(0)
             THEN [err |-> "ZeroDivisionError"]
             ELSE [err |-> "",
                   arr |-> [sh |-> sh, unc |-> unc,
                            c |-> [i \in 1..Size(sh) |->
                                     IF op = "pow"
                                     THEN ElemPow(BroadcastElem(A, sh, i), BroadcastElem(B, sh, i))
                                     ELSE ElemOp(op, BroadcastElem(A, sh, i),
                                                 BroadcastElem(B, sh, i))]]]

(***************************************************************************)
(* The binning collaborator (pisa.core.binning).  A MultiDimBinning is an  *)
(* ordered tuple of axes; an axis is [name, lo, n]: n consecutive bins of  *)
(* the named dimension starting at bin lo of its grid of edges.            *)
(***************************************************************************)
OneDimBinning(name, lo, n) == [name |-> name, lo |-> lo, n |-> n]

MultiDimBinning(dims) == [type |-> "MultiDimBinning", dims |-> dims]

BinningShape(b) == [k \in 1..Len(b.dims) |-> b.dims[k].n]

\* binning.assert_array_fits(array): whether the array has the binning's shape.
ArrayFits(b, A) == A.sh = BinningShape(b)

\* binning.assert_compat(other): whether the axes are identically defined.
BinningCompat(b1, b2) == b1.dims = b2.dims

\* binning._serializable_state and the constructor call that reads it back.
BinningSerializableState(b) ==
    [type |-> "Mapping",
     dimensions |-> [k \in 1..Len(b.dims) |->
                       [name |-> b.dims[k].name, first_bin |-> b.dims[k].lo,
                        num_bins |-> b.dims[k].n]]]

BinningFromMapping(s) ==
    MultiDimBinning([k \in 1..Len(s.dimensions) |->
                       OneDimBinning(s.dimensions[k].name, s.dimensions[k].first_bin,
                                     s.dimensions[k].num_bins)])

\* binning._hashable_state: the canonical projection equality compares.
BinningHashableState(b) ==
    [k \in 1..Len(b.dims) |-> <<b.dims[k].name, b.dims[k].lo, b.dims[k].n>>]

(***************************************************************************)
(* Indices.  An index is [tuple, comps]: whether it was written as a tuple *)
(* and its components; a component is an integer i, [int |-> TRUE, a |-> i,*)
(* b |-> i + 1], or a slice a:b, [int |-> FALSE, a |-> a, b |-> b].        *)
(***************************************************************************)
IntC(i) == [int |-> TRUE, a |-> i, b |-> i + 1]

SliceC(a, b) == [int |-> FALSE, a |-> a, b |-> b]

Tuple(comps) == [tuple |-> TRUE, comps |-> comps]

\* An index that is no sequence: a bare integer or a bare slice.
Bare(comp) == [tuple |-> FALSE, comps |-> <<comp>>]

\* binning[idx]: one component per axis, each selecting bins of its axis; an
\* integer component keeps its axis, with one bin.
BinningGetItem(b, idx) ==
    IF ~idx.tuple \/ Len(idx.comps) # Len(b.dims) THEN [err |-> "ValueError"]
    ELSE IF \E k \in 1..Len(b.dims) :
                ~(0 <= idx.comps[k].a /\ idx.comps[k].a < idx.comps[k].b
                                      /\ idx.comps[k].b <= b.dims[k].n)
         THEN [err |-> "ValueError"]
         ELSE [err |-> "",
               binning |-> MultiDimBinning(
                   [k \in 1..Len(b.dims) |->
                      OneDimBinning(b.dims[k].name, b.dims[k].lo + idx.comps[k].a,
                                    idx.comps[k].b - idx.comps[k].a)])]

(***************************************************************************)
(* Views.  A Map's hist is a reference to an array: a rectangle of the     *)
(* buffer bufs[buf], read with shape sh.                                   *)
(***************************************************************************)
FullView(b, sh) ==
    [buf |-> b, r0 |-> 0, c0 |-> 0, nr |-> Rows(sh), nc |-> Cols(sh), sh |-> sh]

\* The place in its buffer of element k (row-major, from 1) of a view.
Place(bs, v, k) ==
    (v.r0 + ((k - 1) \div v.nc)) * Cols(bs[v.buf].sh) + v.c0 + ((k - 1) % v.nc) + 1

\* The array a view shows.
Read(bs, v) ==
    [sh |-> v.sh, unc |-> bs[v.buf].unc,
     c |-> [k \in 1..(v.nr * v.nc) |-> bs[v.buf].c[Place(bs, v, k)]]]

\* The new buffer table after storing array A; the array is at Len of it.
Alloc(bs, A) == Append(bs, A)

\* hist[idx] with integers and slices on a two-dimensional view.  Slices
\* give a view on the same buffer; integers drop their axis, and with
\* integers only the result is the element itself, not an array.
ViewGetItem(v, idx) ==
    LET cs == idx.comps IN
    IF Len(cs) > Len(v.sh) THEN [err |-> "IndexError"]
    ELSE IF \E k \in 1..Len(cs) : cs[k].int /\ ~(0 <= cs[k].a /\ cs[k].a < v.sh[k])
         THEN [err |-> "IndexError"]
         ELSE LET lo(k) == IF k > Len(cs) THEN 0 ELSE Max(0, cs[k].a)
                  hi(k) == IF k > Len(cs) THEN v.sh[k]
                           ELSE IF cs[k].b > v.sh[k] THEN v.sh[k] ELSE cs[k].b
                  n(k)  == Max(0, hi(k) - lo(k))
                  kept  == {k \in 1..2 : k > Len(cs) \/ ~cs[k].int}
              IN  [err |-> "",
                   scalar |-> kept = {},
                   view |-> [buf |-> v.buf, r0 |-> v.r0 + lo(1), c0 |-> v.c0 + lo(2),
                             nr |-> n(1), nc |-> n(2),
                             sh |-> IF kept = {1, 2} THEN <<n(1), n(2)>>
                                    ELSE IF kept = {1} THEN <<n(1)>>
                                    ELSE IF kept = {2} THEN <<n(2)>>
                                    ELSE <<>>]]

\* np.unravel_index were it to count down the columns (order='F').
unravel_indexF(i, shape) == <<i % shape[1], i \div shape[1]>>

\* np.unravel_index(i, shape): the coordinates of flat position i, row-major.
unravel_index(i, shape) == <<i \div shape[2], i % shape[2]>>

(***************************************************************************)
(* Map.  A Map object is [name, hist, binning, hash, tex, full_comparison, *)
(* parent_indexer], hist being a view.  An operator that models a method   *)
(* takes the buffer table bs and returns [err, ...]: err "" and the        *)
(* method's effect, or the name of the exception it raises.                *)
(***************************************************************************)
\* A TeX string is the tuple of its pieces.
tex_dict ==
    [n \in {"nue", "numu"} |-> IF n = "nue" THEN <<"\\nu_e">> ELSE <<"\\nu_{\\mu}">>]

\* Map.assert_compat for a scalar or an array (of shape () when a scalar).
assert_compat(m, other) == Len(other.sh) = 0 \/ ArrayFits(m.binning, other)

\* Map.set_errors(error_hist): error_hist is None or Some(array).
set_errors(bs, m, error_hist) ==
    IF error_hist = None
    THEN [err |-> "", bufs |-> Alloc(bs, nominal_values(Read(bs, m.hist))),
          map |-> [m EXCEPT !.hist = FullView(Len(bs) + 1, m.hist.sh)]]
    ELSE IF ~assert_compat(m, error_hist[1]) THEN [err |-> "ShapeError"]
    ELSE LET u == uarray(Read(bs, m.hist), error_hist[1], Len(bs) + 1) IN
         IF u.err # "" THEN [err |-> u.err]
         ELSE [err |-> "", bufs |-> Alloc(bs, u.arr),
               map |-> [m EXCEPT !.hist = FullView(Len(bs) + 1, m.hist.sh)]]

\* The binning argument of Map.__init__ made a MultiDimBinning.
AsBinning(binning) ==
    IF binning.type = "Mapping" THEN BinningFromMapping(binning)
    ELSE MultiDimBinning(binning.dims)

\* Map.__init__ were it to keep hist without asking the binning whether it
\* fits.
Map__init__NoFit(bs, name, hist, binning, error_hist, hash, tex, full_comparison) ==
    IF binning.type \notin {"MultiDimBinning", "Sequence", "Mapping"}
    THEN [err |-> "ValueError"]
    ELSE LET m == [name |-> name,
                   hist |-> hist,
                   binning |-> AsBinning(binning),
                   hash |-> hash,
                   tex |-> IF tex # None THEN tex[1]
                           ELSE IF name \in DOMAIN tex_dict THEN tex_dict[name]
                           ELSE <<"\\rm{", name, "}">>,
                   full_comparison |-> full_comparison,
                   parent_indexer |-> None]
         IN  IF error_hist # None THEN set_errors(bs, m, error_hist)
             ELSE [err |-> "", bufs |-> bs, map |-> m]

\* Map.__init__(name, hist, binning, error_hist, hash, tex, full_comparison),
\* hist a view on a buffer of bs, error_hist and tex None or Some(value).
Map__init__(bs, name, hist, binning, error_hist, hash, tex, full_comparison) ==
    IF binning.type \notin {"MultiDimBinning", "Sequence", "Mapping"}
    THEN [err |-> "ValueError"]
    ELSE LET m == [name |-> name,
                   hist |-> hist,
                   binning |-> AsBinning(binning),
                   hash |-> hash,
                   tex |-> IF tex # None THEN tex[1]
                           ELSE IF name \in DOMAIN tex_dict THEN tex_dict[name]
                           ELSE <<"\\rm{", name, "}">>,
                   full_comparison |-> full_comparison,
                   parent_indexer |-> None]
         IN  IF ~ArrayFits(m.binning, Read(bs, hist)) THEN [err |-> "ShapeError"]
             ELSE IF error_hist # None THEN set_errors(bs, m, error_hist)
             ELSE [err |-> "", bufs |-> bs, map |-> m]

\* np.sqrt of an array: numpy has no square root for uncertainties objects.
np_sqrt(A) ==
    IF A.unc THEN [err |-> "AttributeError"]
    ELSE [err |-> "", arr |-> [A EXCEPT !.c = [i \in DOMAIN A.c |-> Float(QSqrt(A.c[i].n))]]]

\* np.log and np.log10 of an array: numpy has no logarithm for uncertainties
\* objects either.
np_log(A, base) ==
    IF A.unc THEN [err |-> "AttributeError"]
    ELSE [err |-> "", arr |-> [A EXCEPT !.c = [i \in DOMAIN A.c |-> Float(QLog(A.c[i].n, base))]]]

\* np.abs of an array; abs of an uncertainties value has the derivative 1
\* from zero on and -1 below it.
np_abs(A) ==
    [err |-> "",
     arr |-> [A EXCEPT !.c = [i \in DOMAIN A.c |->
                [n |-> QAbs(A.c[i].n),
                 d |-> Lin(A.c[i].d, IF A.c[i].n[1] >= 0 THEN Num(1) ELSE Num(-1), {}, Num(0))]]]]

\* Map.set_poisson_errors()
set_poisson_errors(bs, m) ==
    LET s == np_sqrt(Read(bs, m.hist)) IN
    IF s.err # "" THEN [err |-> s.err]
    ELSE LET u == uarray(Read(bs, m.hist), s.arr, Len(bs) + 1) IN
         IF u.err # "" THEN [err |-> u.err]
         ELSE [err |-> "", bufs |-> Alloc(bs, u.arr),
               map |-> [m EXCEPT !.hist = FullView(Len(bs) + 1, m.hist.sh)]]

\* The new_obj decorator were it to leave the hash of the new Map unset.
new_objResetHash(bs, self, rslt) ==
    IF rslt.err # "" THEN [err |-> rslt.err]
    ELSE IF rslt.upd = None THEN [err |-> "AttributeError"]
    ELSE LET u   == rslt.upd[1]
             has(f) == f \in DOMAIN u
             bs1 == IF has("arr") THEN Alloc(bs, u.arr)
                    ELSE IF has("view") THEN bs
                    ELSE Alloc(bs, Read(bs, self.hist))
             h   == IF has("arr") THEN FullView(Len(bs1), u.arr.sh)
                    ELSE IF has("view") THEN u.view
                    ELSE FullView(Len(bs1), self.hist.sh)
         IN  Map__init__(bs1, self.name, h,
                         IF has("binning") THEN u.binning ELSE self.binning,
                         None, None, Some(self.tex),
                         IF has("full_comparison") THEN u.full_comparison
                         ELSE self.full_comparison)

\* The new_obj decorator: the Map built from the state the decorated method
\* returns, the fields it leaves out copied from self.  rslt is what the
\* method returned: [err], or [err |-> "", upd |-> None] for a bare return,
\* or [err |-> "", upd |-> Some(updates)], updates a record that may hold
\* binning, full_comparison and the new hist as arr (a new array) or as
\* view (a view on a buffer of bs).
new_obj(bs, self, rslt) ==
    IF rslt.err # "" THEN [err |-> rslt.err]
    ELSE IF rslt.upd = None THEN [err |-> "AttributeError"]
    ELSE LET u   == rslt.upd[1]
             has(f) == f \in DOMAIN u
             bs1 == IF has("arr") THEN Alloc(bs, u.arr)
                    ELSE IF has("view") THEN bs
                    ELSE Alloc(bs, Read(bs, self.hist))
             h   == IF has("arr") THEN FullView(Len(bs1), u.arr.sh)
                    ELSE IF has("view") THEN u.view
                    ELSE FullView(Len(bs1), self.hist.sh)
             r   == Map__init__(bs1, self.name, h,
                                IF has("binning") THEN u.binning ELSE self.binning,
                                None, self.hash, Some(self.tex),
                                IF has("full_comparison") THEN u.full_comparison
                                ELSE self.full_comparison)
         IN  r

(***************************************************************************)
(* Operands.  The right-hand operand of an operator or of == is            *)
(*   [type |-> "scalar", arr |-> Scalar(x)]       a Python number          *)
(*   [type |-> "Variable", arr |-> ufloat(..)]    an uncertainties ufloat  *)
(*   [type |-> "ndarray", arr |-> A]              a numpy array            *)
(*   [type |-> "Map", id |-> j, map |-> m]        the Map maps[j]          *)
(*   [type |-> "str"]                             anything else            *)
(***************************************************************************)
ScalarArg(x) == [type |-> "scalar", arr |-> Scalar(x)]

VariableArg(x, s) == [type |-> "Variable", arr |-> ufloat(x, s, 1)]

ArrayArg(A) == [type |-> "ndarray", arr |-> A]

\* The Map maps[j], as it is when the call is made.
MapArg(j) == [type |-> "Map", id |-> j, map |-> maps[j]]

OtherArg == [type |-> "str"]

\* The state updates of the binary operators were the result to need both
\* operands' full_comparison flags set.
binaryBothFlags(bs, op, self, other) ==
    IF other.type \in {"scalar", "Variable", "ndarray"}
    THEN LET r == ArrayOp(op, Read(bs, self.hist), other.arr) IN
         IF r.err # "" THEN [err |-> r.err]
         ELSE [err |-> "", upd |-> Some([arr |-> r.arr])]
    ELSE IF other.type = "Map"
    THEN LET r == ArrayOp(op, Read(bs, self.hist), Read(bs, other.map.hist)) IN
         IF r.err # "" THEN [err |-> r.err]
         ELSE [err |-> "",
               upd |-> Some([arr |-> r.arr,
                             full_comparison |-> (self.full_comparison
                                                  /\ other.map.full_comparison)])]
    ELSE [err |-> "TypeError"]

\* The state updates of the binary operators were the result to take the
\* full_comparison flag of self alone.
binarySelfFlag(bs, op, self, other) ==
    IF other.type \in {"scalar", "Variable", "ndarray"}
    THEN LET r == ArrayOp(op, Read(bs, self.hist), other.arr) IN
         IF r.err # "" THEN [err |-> r.err]
         ELSE [err |-> "", upd |-> Some([arr |-> r.arr])]
    ELSE IF other.type = "Map"
    THEN LET r == ArrayOp(op, Read(bs, self.hist), Read(bs, other.map.hist)) IN
         IF r.err # "" THEN [err |-> r.err]
         ELSE [err |-> "",
               upd |-> Some([arr |-> r.arr, full_comparison |-> self.full_comparison])]
    ELSE [err |-> "TypeError"]

\* The state updates __add__, __sub__, __mul__ and __div__ return: the new
\* hist, and for a Map operand the full_comparison flag.
binary(bs, op, self, other) ==
    IF other.type \in {"scalar", "Variable", "ndarray"}
    THEN LET r == ArrayOp(op, Read(bs, self.hist), other.arr) IN
         IF r.err # "" THEN [err |-> r.err]
         ELSE [err |-> "", upd |-> Some([arr |-> r.arr])]
    ELSE IF other.type = "Map"
    THEN LET r == ArrayOp(op, Read(bs, self.hist), Read(bs, other.map.hist)) IN
         IF r.err # "" THEN [err |-> r.err]
         ELSE [err |-> "",
               upd |-> Some([arr |-> r.arr,
                             full_comparison |-> (self.full_comparison
                                                  \/ other.map.full_comparison)])]
    ELSE [err |-> "TypeError"]

\* Map.__add__ were it to give its result a name of its own, as the lines
\* commented out in it would.
Map__add__Named(bs, self, other) ==
    new_obj(bs, [self EXCEPT !.name = "sum"], binary(bs, "add", self, other))

Map__add__(bs, self, other) == new_obj(bs, self, binary(bs, "add", self, other))

Map__sub__(bs, self, other) == new_obj(bs, self, binary(bs, "sub", self, other))

Map__mul__(bs, self, other) == new_obj(bs, self, binary(bs, "mul", self, other))

Map__div__(bs, self, other) == new_obj(bs, self, binary(bs, "div", self, other))

\* Map.__pow__: np.power(self.hist, other)
Map__pow__(bs, self, other) == new_obj(bs, self, binary(bs, "pow", self, other))

\* Map.__radd__ and Map.__rmul__: other + self is self + other.
Map__radd__(bs, self, other) == Map__add__(bs, self, other)

Map__rmul__(bs, self, other) == Map__mul__(bs, self, other)

\* Map.__neg__ were it to negate hist where it is (np.negative(hist, hist))
\* and to hand that array to the new Map.
Map__neg__InPlace(bs, self) ==
    LET r  == ArrayOp("mul", Read(bs, self.hist), Scalar(Num(-1)))
        B  == bs[self.hist.buf]
        at == [k \in 1..Size(self.hist.sh) |-> Place(bs, self.hist, k)]
        bs1 == [bs EXCEPT ![self.hist.buf] =
                   [B EXCEPT !.c = [p \in DOMAIN B.c |->
                       IF \E k \in DOMAIN at : at[k] = p
                       THEN r.arr.c[CHOOSE k \in DOMAIN at : at[k] = p] ELSE B.c[p]]]]
    IN  new_obj(bs1, self, [err |-> "", upd |-> Some([view |-> self.hist])])

\* Map.__neg__
Map__neg__(bs, self) ==
    new_obj(bs, self,
            LET r == ArrayOp("mul", Read(bs, self.hist), Scalar(Num(-1))) IN
            [err |-> "", upd |-> Some([arr |-> r.arr])])

\* The state updates of __abs__, sqrt, log and log10: the new hist, r being
\* what numpy returned for self.hist.
unary(r) == IF r.err # "" THEN [err |-> r.err] ELSE [err |-> "", upd |-> Some([arr |-> r.arr])]

Map__abs__(bs, self) == new_obj(bs, self, unary(np_abs(Read(bs, self.hist))))

Map_sqrt(bs, self) == new_obj(bs, self, unary(np_sqrt(Read(bs, self.hist))))

Map_log(bs, self) == new_obj(bs, self, unary(np_log(Read(bs, self.hist), 1)))

Map_log10(bs, self) == new_obj(bs, self, unary(np_log(Read(bs, self.hist), 10)))

\* Map.__rsub: other - self.hist for a scalar, a ufloat or an array.
Map__rsub(bs, self, other) ==
    new_obj(bs, self,
        IF other.type \in {"scalar", "Variable", "ndarray"}
        THEN unary(ArrayOp("sub", other.arr, Read(bs, self.hist)))
        ELSE [err |-> "TypeError"])

\* Map.__rsub__(other): other - self
Map__rsub__(bs, self, other) ==
    IF other.type = "Map"
    THEN Map__sub__(bs, other.map, [type |-> "Map", id |-> 0, map |-> self])
    ELSE Map__rsub(bs, self, other)

\* Map.__rdiv: its parameter is spelled oher, so the first line of its body,
\* which reads other, raises NameError whatever it is called with.
Map__rdiv(bs, self, oher) == new_obj(bs, self, [err |-> "NameError"])

\* Map.__rdiv__(other): other / self
Map__rdiv__(bs, self, other) ==
    IF other.type = "Map"
    THEN Map__div__(bs, other.map, [type |-> "Map", id |-> 0, map |-> self])
    ELSE Map__rdiv(bs, self, other)

\* The lower-cased str(method) of the fluctuation methods of the model.
Lower ==
    [m \in {"poisson", "Poisson", "", "none", "None", "false", "gauss"} |->
        IF m = "Poisson" THEN "poisson" ELSE IF m = "None" THEN "none" ELSE m]

\* Map.fluctuate(method): draws is what poisson.rvs returns, an array of
\* counts of the shape of hist.
fluctuate(bs, self, method, draws) ==
    new_obj(bs, self,
        IF Lower[method] = "poisson"
        THEN LET h == Read(bs, self.hist)
                 s == np_sqrt(h)
             IN  IF h.unc THEN [err |-> "TypeError"]
                 ELSE IF \E i \in DOMAIN h.c : ~IsFinite(h.c[i].n) \/ h.c[i].n[1] < 0
                 THEN [err |-> "ValueError"]
                 ELSE LET u == uarray(draws, s.arr, Len(bs) + 1) IN
                      [err |-> "", upd |-> Some([arr |-> u.arr])]
        ELSE IF Lower[method] \in {"", "none", "false"}
        THEN [err |-> "", upd |-> None]
        ELSE [err |-> "Exception"])

\* np.reshape(hist[idx], shape): a view where hist[idx] is one, a new array
\* where it is a single element.
reshape_getitem(bs, v, idx, shape) ==
    LET g == ViewGetItem(v, idx) IN
    IF g.err # "" THEN [err |-> g.err]
    ELSE IF g.view.nr * g.view.nc # Size(shape) THEN [err |-> "ValueError"]
    ELSE IF g.scalar
    THEN [err |-> "", upd |-> [arr |-> [Read(bs, g.view) EXCEPT !.sh = shape]]]
    ELSE [err |-> "", upd |-> [view |-> [g.view EXCEPT !.sh = shape]]]

\* Map.index were it to take hist[idx] as it comes, without reshaping it to
\* the shape of the indexed binning.
indexNoReshape(bs, self, idx) ==
    new_obj(bs, self,
        IF ~idx.tuple THEN [err |-> "TypeError"]
        ELSE LET nb == BinningGetItem(self.binning, idx) IN
             IF nb.err # "" THEN [err |-> nb.err]
             ELSE LET g == ViewGetItem(self.hist, idx) IN
                  IF g.err # "" THEN [err |-> g.err]
                  ELSE [err |-> "",
                        upd |-> Some(IF g.scalar
                                     THEN [binning |-> nb.binning, arr |-> Read(bs, g.view)]
                                     ELSE [binning |-> nb.binning, view |-> g.view])])

\* Map.index(idx), which is Map.__getitem__(idx)
index(bs, self, idx) ==
    new_obj(bs, self,
        IF ~idx.tuple THEN [err |-> "TypeError"]
        ELSE LET nb == BinningGetItem(self.binning, idx) IN
             IF nb.err # "" THEN [err |-> nb.err]
             ELSE LET h == reshape_getitem(bs, self.hist, idx, BinningShape(nb.binning)) IN
                  IF h.err # "" THEN [err |-> h.err]
                  ELSE [err |-> "",
                        upd |-> Some(IF "arr" \in DOMAIN h.upd
                                     THEN [binning |-> nb.binning, arr |-> h.upd.arr]
                                     ELSE [binning |-> nb.binning, view |-> h.upd.view])])

\* Map.__setitem__(idx, val): setitem(self.hist, idx, val), val a number.
\* The elements idx selects are overwritten in the buffer hist views.
Map__setitem__(bs, self, idx, val) ==
    LET g == ViewGetItem(self.hist, idx) IN
    IF g.err # "" THEN [err |-> g.err]
    ELSE LET B      == bs[self.hist.buf]
             places == {Place(bs, g.view, k) : k \in 1..(g.view.nr * g.view.nc)}
         IN  [err |-> "",
              bufs |-> [bs EXCEPT ![self.hist.buf] =
                          [B EXCEPT !.c = [p \in DOMAIN B.c |->
                                             IF p \in places THEN Float(val) ELSE B.c[p]]]]]

(***************************************************************************)
(* States, equality and serialization of a Map.                            *)
(***************************************************************************)
\* The values of a bare array as the state holds them: shape and elements.
Values(A) == [sh |-> A.sh, c |-> [i \in DOMAIN A.c |-> A.c[i].n]]

\* normQuant of an array: each element rounded.
normQuantArray(V, sigfigs) == [V EXCEPT !.c = [i \in DOMAIN V.c |-> normQuant(V.c[i], sigfigs)]]

\* Map._serializable_state were it to drop the standard deviations as soon
\* as one of them is zero.
serializable_stateAnyZero(bs, m) ==
    LET h       == Read(bs, m.hist)
        stddevs == Values(std_devs(h))
    IN  [name |-> m.name,
         hist |-> Values(nominal_values(h)),
         binning |-> BinningSerializableState(m.binning),
         error_hist |-> IF \E i \in DOMAIN stddevs.c : QEq(stddevs.c[i], Num(0))
                        THEN None ELSE Some(stddevs),
         hash |-> m.hash,
         tex |-> m.tex,
         full_comparison |-> m.full_comparison]

\* Map._serializable_state
serializable_state(bs, m) ==
    LET h       == Read(bs, m.hist)
        stddevs == Values(std_devs(h))
    IN  [name |-> m.name,
         hist |-> Values(nominal_values(h)),
         binning |-> BinningSerializableState(m.binning),
         error_hist |-> IF \A i \in DOMAIN stddevs.c : QEq(stddevs.c[i], Num(0))
                        THEN None ELSE Some(stddevs),
         hash |-> m.hash,
         tex |-> m.tex,
         full_comparison |-> m.full_comparison]

\* Map._hashable_state
hashable_state(bs, m) ==
    LET h       == Read(bs, m.hist)
        stddevs == normQuantArray(Values(std_devs(h)), HASH_SIGFIGS)
    IN  [name |-> m.name,
         hist |-> normQuantArray(Values(nominal_values(h)), HASH_SIGFIGS),
         binning |-> BinningHashableState(m.binning),
         error_hist |-> IF \A i \in DOMAIN stddevs.c : stddevs.c[i] = normQuant(Num(0), HASH_SIGFIGS)
                        THEN None ELSE Some(stddevs),
         tex |-> m.tex,
         full_comparison |-> m.full_comparison]

\* recursiveEquality on two arrays of rounded values: the same shape and the
\* same value everywhere, nan being equal to nothing.
ArraysEqual(x, y) ==
    /\ x.sh = y.sh
    /\ \A i \in DOMAIN x.c : ~IsNaN(x.c[i]) /\ x.c[i] = y.c[i]

\* pisa.utils.comparisons.recursiveEquality on two hashable states of Maps.
recursiveEquality(x, y) ==
    /\ x.name = y.name
    /\ ArraysEqual(x.hist, y.hist)
    /\ x.binning = y.binning
    /\ (x.error_hist = None) = (y.error_hist = None)
    /\ x.error_hist # None /\ y.error_hist # None
          => ArraysEqual(x.error_hist[1], y.error_hist[1])
    /\ x.tex = y.tex
    /\ x.full_comparison = y.full_comparison

\* np.all(a == b) for two bare arrays, with broadcasting; arrays that do not
\* broadcast are unequal.
AllEqual(A, B) ==
    /\ Broadcastable(A.sh, B.sh)
    /\ LET sh == BroadcastShape(A.sh, B.sh) IN
       \A i \in 1..Size(sh) : QEq(BroadcastElem(A, sh, i).n, BroadcastElem(B, sh, i).n)

\* Map.__eq__ as its docstring has it: the contents are compared when
\* full_comparison is true for both Maps, or when either lacks a hash.
Map__eq__BothFlags(bs, self, other) ==
    IF other.type = "scalar"
    THEN [err |-> "", val |-> AllEqual(nominal_values(Read(bs, self.hist)), other.arr)]
    ELSE IF other.type \in {"Variable", "ndarray"}
    THEN [err |-> "",
          val |-> /\ AllEqual(nominal_values(Read(bs, self.hist)), nominal_values(other.arr))
                  /\ AllEqual(std_devs(Read(bs, self.hist)), std_devs(other.arr))]
    ELSE IF other.type = "Map"
    THEN IF \/ self.full_comparison /\ other.map.full_comparison
            \/ self.hash = None \/ other.map.hash = None
         THEN [err |-> "", val |-> recursiveEquality(hashable_state(bs, self),
                                                     hashable_state(bs, other.map))]
         ELSE [err |-> "", val |-> self.hash = other.map.hash]
    ELSE [err |-> "TypeError"]

\* Map.__eq__(other): [err, val]
Map__eq__(bs, self, other) ==
    IF other.type = "scalar"
    THEN [err |-> "", val |-> AllEqual(nominal_values(Read(bs, self.hist)), other.arr)]
    ELSE IF other.type \in {"Variable", "ndarray"}
    THEN [err |-> "",
          val |-> /\ AllEqual(nominal_values(Read(bs, self.hist)), nominal_values(other.arr))
                  /\ AllEqual(std_devs(Read(bs, self.hist)), std_devs(other.arr))]
    ELSE IF other.type = "Map"
    THEN IF \/ self.full_comparison \/ other.map.full_comparison
            \/ self.hash = None \/ other.map.hash = None
         THEN [err |-> "", val |-> recursiveEquality(hashable_state(bs, self),
                                                     hashable_state(bs, other.map))]
         ELSE [err |-> "", val |-> self.hash = other.map.hash]
    ELSE [err |-> "TypeError"]

\* jsons.to_json of a state: an array is written as nested sequences of
\* numbers, row by row.
Nested(V) == [r \in 1..Rows(V.sh) |-> [k \in 1..Cols(V.sh) |-> V.c[(r - 1) * Cols(V.sh) + k]]]

to_json(state) ==
    [state EXCEPT !.hist = Nested(state.hist),
                  !.error_hist = IF state.error_hist = None THEN None
                                 ELSE Some(Nested(state.error_hist[1]))]

\* jsons.from_json: nested sequences of numbers are read as numpy arrays.
Unnested(L) ==
    Arr(<<Len(L), Len(L[1])>>,
        [i \in 1..(Len(L) * Len(L[1])) |-> L[((i - 1) \div Len(L[1])) + 1][((i - 1) % Len(L[1])) + 1]])

\* Map.from_json: cls(**state) on the state read from the file.
from_json(bs, file) ==
    LET h == Unnested(file.hist) IN
    Map__init__(Alloc(bs, h), file.name, FullView(Len(bs) + 1, h.sh), file.binning,
                IF file.error_hist = None THEN None ELSE Some(Unnested(file.error_hist[1])),
                file.hash, Some(file.tex), file.full_comparison)

(***************************************************************************)
(* The calls of the program.  Each action is one call: it changes the heap *)
(* as the call does and records in ret the call ([op, self, arg]), the     *)
(* exception it raised (err, "" when none) and what it returned (out).     *)
(* A call that raises leaves the heap as it was.                           *)
(***************************************************************************)
Ret(op, self, arg, err, out) == [op |-> op, self |-> self, arg |-> arg, err |-> err, out |-> out]

MapIds == 1..Len(maps)

\* Map(name, hist, binning, error_hist, hash, tex, full_comparison) on a new
\* array hist.
Construct(name, hist, binning, error_hist, hash, tex, full_comparison) ==
    /\ calls < MaxCalls
    /\ calls' = calls + 1
    /\ LET bs1 == Alloc(bufs, hist)
           r   == Map__init__(bs1, name, FullView(Len(bs1), hist.sh), binning, error_hist,
                              hash, tex, full_comparison)
           arg == [hist |-> hist, binning |-> binning, error_hist |-> error_hist]
       IN  IF r.err = ""
           THEN /\ bufs' = r.bufs
                /\ maps' = Append(maps, r.map)
                /\ origin' = Append(origin, [op |-> "Map", self |-> 0, arg |-> arg])
                /\ ret' = Ret("Map", 0, arg, "", Len(maps) + 1)
           ELSE /\ UNCHANGED <<bufs, maps, origin>>
                /\ ret' = Ret("Map", 0, arg, r.err, 0)
    /\ UNCHANGED <<sets, gens, disk>>

\* The effect of a method that changes self in place: r is what it returned.
InPlace(op, i, arg, r) ==
    /\ calls < MaxCalls
    /\ calls' = calls + 1
    /\ IF r.err = ""
       THEN /\ bufs' = r.bufs
            /\ maps' = IF "map" \in DOMAIN r THEN [maps EXCEPT ![i] = r.map] ELSE maps
            /\ ret' = Ret(op, i, arg, "", 0)
       ELSE /\ UNCHANGED <<bufs, maps>>
            /\ ret' = Ret(op, i, arg, r.err, 0)
    /\ UNCHANGED <<origin, sets, gens, disk>>

\* maps[i].set_errors(error_hist)
SetErrors(i, error_hist) == InPlace("set_errors", i, error_hist, set_errors(bufs, maps[i], error_hist))

\* maps[i].set_poisson_errors()
SetPoissonErrors(i) == InPlace("set_poisson_errors", i, None, set_poisson_errors(bufs, maps[i]))

\* maps[i][idx] = val
SetItem(i, idx, val) ==
    InPlace("__setitem__", i, [idx |-> idx, val |-> val], Map__setitem__(bufs, maps[i], idx, val))

\* maps[i].hash = value
SetHash(i, value) ==
    InPlace("hash", i, value, [err |-> "", bufs |-> bufs, map |-> [maps[i] EXCEPT !.hash = value]])

\* Map.__hash__ were a Map without a hash to hash to 0.
Map__hash__Zero(self) ==
    IF self.hash # None THEN [err |-> "", val |-> self.hash[1]]
    ELSE [err |-> "", val |-> 0]

\* Map.__hash__()
Map__hash__(self) ==
    IF self.hash # None THEN [err |-> "", val |-> self.hash[1]]
    ELSE [err |-> "ValueError"]

\* hash(maps[i]), the hash an integer
Hash(i) ==
    /\ LET r == Map__hash__(maps[i]) IN
       ret' = Ret("__hash__", i, None, r.err, IF r.err = "" THEN r.val ELSE 0)
    /\ UNCHANGED <<bufs, maps, origin, sets, gens, disk, calls>>

\* The effect of a method that returns a new Map: r is what new_obj returned.
NewMap(op, i, arg, r) ==
    /\ calls < MaxCalls
    /\ calls' = calls + 1
    /\ IF r.err = ""
       THEN /\ bufs' = r.bufs
            /\ maps' = Append(maps, r.map)
            /\ origin' = Append(origin, [op |-> op, self |-> i, arg |-> arg])
            /\ ret' = Ret(op, i, arg, "", Len(maps) + 1)
       ELSE /\ UNCHANGED <<bufs, maps, origin>>
            /\ ret' = Ret(op, i, arg, r.err, 0)
    /\ UNCHANGED <<sets, gens, disk>>

\* maps[i][idx]
GetItem(i, idx) == NewMap("__getitem__", i, idx, index(bufs, maps[i], idx))

\* maps[i] + other, maps[i] - other, maps[i] * other, maps[i] / other
Add(i, other) == NewMap("__add__", i, other, Map__add__(bufs, maps[i], other))

Sub(i, other) == NewMap("__sub__", i, other, Map__sub__(bufs, maps[i], other))

Mul(i, other) == NewMap("__mul__", i, other, Map__mul__(bufs, maps[i], other))

Div(i, other) == NewMap("__div__", i, other, Map__div__(bufs, maps[i], other))

\* maps[i] ** other, for the exponents the model raises to
Pow(i, other) ==
    /\ WholePowers(IF other.type = "Map" THEN Read(bufs, other.map.hist) ELSE other.arr)
    /\ NewMap("__pow__", i, other, Map__pow__(bufs, maps[i], other))

\* other * maps[i], other not a Map
RMul(i, other) == NewMap("__rmul__", i, other, Map__rmul__(bufs, maps[i], other))

\* other + maps[i], other - maps[i], other / maps[i], as the calls of the
\* reflected methods Python makes for an other that is not a Map
RAdd(i, other) == NewMap("__radd__", i, other, Map__radd__(bufs, maps[i], other))

RSub(i, other) == NewMap("__rsub__", i, other, Map__rsub__(bufs, maps[i], other))

RDiv(i, other) == NewMap("__rdiv__", i, other, Map__rdiv__(bufs, maps[i], other))

\* abs(maps[i]), maps[i].sqrt(), maps[i].log(), maps[i].log10()
AbsOf(i) == NewMap("__abs__", i, None, Map__abs__(bufs, maps[i]))

Sqrt(i) == NewMap("sqrt", i, None, Map_sqrt(bufs, maps[i]))

Log(i) == NewMap("log", i, None, Map_log(bufs, maps[i]))

Log10(i) == NewMap("log10", i, None, Map_log10(bufs, maps[i]))

\* -maps[i]
Neg(i) == NewMap("__neg__", i, None, Map__neg__(bufs, maps[i]))

\* The arrays poisson.rvs can return for the expectations h: counts of the
\* shape of h, 0 where the expectation is 0.
PoissonDraws(h, counts) ==
    {A \in {Arr(h.sh, [i \in DOMAIN h.c |-> IF h.c[i].n = Num(0) THEN Num(0) ELSE Num(k)]) :
                k \in counts} : TRUE}

\* maps[i].fluctuate(method)
Fluctuate(i, method, counts) ==
    \E draws \in PoissonDraws(Read(bufs, maps[i].hist), counts) :
        NewMap("fluctuate", i, [method |-> method, draws |-> draws],
               fluctuate(bufs, maps[i], method, draws))

\* maps[i] == other
Eq(i, other) ==
    /\ LET r == Map__eq__(bufs, maps[i], other) IN
       ret' = Ret("__eq__", i, other, r.err, IF r.err = "" THEN r.val ELSE FALSE)
    /\ UNCHANGED <<bufs, maps, origin, sets, gens, disk, calls>>

\* maps[i].to_json(file): the file holds the state written.
ToJson(i) ==
    /\ calls < MaxCalls
    /\ calls' = calls + 1
    /\ disk' = Some([src |-> i, file |-> to_json(serializable_state(bufs, maps[i]))])
    /\ ret' = Ret("to_json", i, None, "", 0)
    /\ UNCHANGED <<bufs, maps, origin, sets, gens>>

\* Map.from_json(file)
FromJson ==
    /\ disk # None
    /\ NewMap("from_json", disk[1].src, disk[1].file, from_json(bufs, disk[1].file))

(***************************************************************************)
(* Generators.  A generator made by iterbins or iterindices is             *)
(* [kind, m, shape, size, i, out, done]: m the Map it iterates, shape and  *)
(* size what its first step read, i the next flat position, out what it    *)
(* yielded so far (the Maps, or the coordinates), done whether it stopped. *)
(***************************************************************************)
\* maps[m].iterbins() and maps[m].iterindices(): the generator is made, its
\* body has not run yet.
IterBins(m) ==
    /\ calls < MaxCalls
    /\ calls' = calls + 1
    /\ Len(gens) < MaxGens
    /\ gens' = Append(gens, [kind |-> "bins", m |-> m, shape |-> None, size |-> 0,
                             i |-> 0, out |-> <<>>, done |-> FALSE])
    /\ ret' = Ret("iterbins", m, None, "", Len(gens) + 1)
    /\ UNCHANGED <<bufs, maps, origin, sets, disk>>

IterIndices(m) ==
    /\ calls < MaxCalls
    /\ calls' = calls + 1
    /\ Len(gens) < MaxGens
    /\ gens' = Append(gens, [kind |-> "indices", m |-> m, shape |-> None, size |-> 0,
                             i |-> 0, out |-> <<>>, done |-> FALSE])
    /\ ret' = Ret("iterindices", m, None, "", Len(gens) + 1)
    /\ UNCHANGED <<bufs, maps, origin, sets, disk>>

\* The Map iterbins yields for the coordinates idx_item of self.
single_bin_map(bs, self, idx_item) ==
    LET idx_view == Tuple(<<SliceC(idx_item[1], idx_item[1] + 1),
                            SliceC(idx_item[2], idx_item[2] + 1)>>)
        h  == ViewGetItem(self.hist, idx_view)
        nb == BinningGetItem(self.binning, Tuple(<<IntC(idx_item[1]), IntC(idx_item[2])>>))
    IN  IF nb.err # "" THEN [err |-> nb.err]
        ELSE LET r == Map__init__(bs, self.name, h.view, nb.binning, None, None,
                                  Some(self.tex), self.full_comparison)
             IN  IF r.err # "" THEN r
                 ELSE [r EXCEPT !.map.parent_indexer = Some(idx_item)]

\* next(g): one step of the generator gens[g], to its next yield or its end.
GenNext(g) ==
    /\ ~gens[g].done
    /\ LET gen   == gens[g]
           self  == maps[gen.m]
           shape == IF gen.shape = None THEN self.hist.sh ELSE gen.shape[1]
           size  == IF gen.shape = None THEN Size(self.hist.sh) ELSE gen.size
           run   == [gen EXCEPT !.shape = Some(shape), !.size = size]
       IN  IF gen.i >= size
           THEN /\ gens' = [gens EXCEPT ![g] = [run EXCEPT !.done = TRUE]]
                /\ ret' = Ret("next", gen.m, g, "StopIteration", 0)
                /\ UNCHANGED <<bufs, maps, origin>>
           ELSE LET idx_item == unravel_index(gen.i, shape) IN
                IF gen.kind = "indices"
                THEN /\ gens' = [gens EXCEPT ![g] = [run EXCEPT !.i = gen.i + 1,
                                                               !.out = Append(gen.out, idx_item)]]
                     /\ ret' = Ret("next", gen.m, g, "", idx_item)
                     /\ UNCHANGED <<bufs, maps, origin>>
                ELSE LET r == single_bin_map(bufs, self, idx_item) IN
                     IF r.err # ""
                     THEN /\ gens' = [gens EXCEPT ![g] = [run EXCEPT !.done = TRUE]]
                          /\ ret' = Ret("next", gen.m, g, r.err, 0)
                          /\ UNCHANGED <<bufs, maps, origin>>
                     ELSE /\ gens' = [gens EXCEPT ![g] = [run EXCEPT !.i = gen.i + 1,
                                                           !.out = Append(gen.out, Len(maps) + 1)]]
                          /\ maps' = Append(maps, r.map)
                          /\ origin' = Append(origin, [op |-> "next", self |-> gen.m,
                                                         arg |-> idx_item])
                          /\ bufs' = r.bufs
                          /\ ret' = Ret("next", gen.m, g, "", Len(maps) + 1)
    /\ UNCHANGED <<sets, disk, calls>>

(***************************************************************************)
(* MapSet.  A MapSet is [maps, name, tex, collate_by_name]: maps the ids   *)
(* of its member Maps in order.  An operand that is a MapSet is            *)
(* [type |-> "MapSet", id |-> t, set |-> sets[t]]; the item of a lookup is *)
(* [type |-> "str", v |-> name] or [type |-> "int", v |-> position].       *)
(***************************************************************************)
SetArg(t) == [type |-> "MapSet", id |-> t, set |-> sets[t]]

\* MapSet.__init__(maps, name, tex, collate_by_name) on Maps, name and tex
\* None or Some(value).
MapSet__init__(members, name, tex, collate_by_name) ==
    [maps |-> members,
     name |-> name,
     tex |-> IF tex # None THEN tex[1]
             ELSE <<"{\\rm ", IF name = None THEN "None" ELSE name[1], "}">>,
     collate_by_name |-> collate_by_name,
     collate_by_num |-> ~collate_by_name]

\* MapSet.find_map were names.index to find the last member of the name.
find_mapLast(ms, S, value) ==
    LET found == {k \in 1..Len(S.maps) : value.type = "str" /\ ms[S.maps[k]].name = value.v} IN
    IF found = {} THEN [err |-> "ValueError"]
    ELSE [err |-> "", kind |-> "Map",
          out |-> S.maps[CHOOSE k \in found : \A l \in found : k >= l]]

\* MapSet.find_map(value): the first member of that name.
find_map(ms, S, value) ==
    LET found == {k \in 1..Len(S.maps) : value.type = "str" /\ ms[S.maps[k]].name = value.v} IN
    IF found = {} THEN [err |-> "ValueError"]
    ELSE [err |-> "", kind |-> "Map",
          out |-> S.maps[CHOOSE k \in found : \A l \in found : k <= l]]

\* MapSet.__getitem__(item) for a name, a position (a negative position
\* counts from the end) or a slice a:b of positions, 0 <= a.  What it
\* returns is of the kind Map, MapSet (the new MapSet is set) or tuple (out
\* are the Maps the tuple holds).
MapSet__getitem__(ms, S, item) ==
    LET n == Len(S.maps) IN
    IF item.type = "str" THEN find_map(ms, S, item)
    ELSE IF item.type = "int"
    THEN IF item.v >= n \/ item.v < -n THEN [err |-> "IndexError"]
         ELSE [err |-> "", kind |-> "Map",
               out |-> S.maps[IF item.v >= 0 THEN item.v + 1 ELSE n + item.v + 1]]
    ELSE IF item.type = "slice"
    THEN LET hi   == IF item.b > n THEN n ELSE item.b
             rslt == IF item.a >= hi THEN <<>> ELSE SubSeq(S.maps, item.a + 1, hi)
         IN  IF Len(rslt) > 1
             THEN [err |-> "", kind |-> "MapSet", set |-> MapSet__init__(rslt, None, None, TRUE)]
             ELSE [err |-> "", kind |-> "tuple", out |-> rslt]
    ELSE [err |-> "TypeError"]

\* The argument for member map_num were apply_to_maps to look the member of
\* the other MapSet up by name whatever collate_by_name says.
this_map_argsByName(ms, S, map_num, arg) ==
    IF arg.type \in {"scalar", "Variable", "ndarray", "str"} THEN [err |-> "", arg |-> arg]
    ELSE IF arg.type = "MapSet"
    THEN LET r == MapSet__getitem__(ms, arg.set,
                                    [type |-> "str", v |-> ms[S.maps[map_num + 1]].name])
         IN  IF r.err # "" THEN [err |-> r.err]
             ELSE [err |-> "", arg |-> [type |-> "Map", id |-> r.out, map |-> ms[r.out]]]
    ELSE [err |-> "TypeError"]

\* The argument apply_to_maps passes to the method of member map_num (from
\* 0) of S for the argument arg.
this_map_args(ms, S, map_num, arg) ==
    IF arg.type \in {"scalar", "Variable", "ndarray", "str"} THEN [err |-> "", arg |-> arg]
    ELSE IF arg.type = "MapSet"
    THEN LET r == IF S.collate_by_name
                  THEN MapSet__getitem__(ms, arg.set,
                                         [type |-> "str", v |-> ms[S.maps[map_num + 1]].name])
                  ELSE MapSet__getitem__(ms, arg.set, [type |-> "int", v |-> map_num])
         IN  IF r.err # "" THEN [err |-> r.err]
             ELSE [err |-> "", arg |-> [type |-> "Map", id |-> r.out, map |-> ms[r.out]]]
    ELSE [err |-> "TypeError"]

\* getattr(mp, method_name)(arg) for the binary operators.
Method(bs, method_name, mp, arg) ==
    CASE method_name = "__add__" -> Map__add__(bs, mp, arg)
      [] method_name = "__sub__" -> Map__sub__(bs, mp, arg)
      [] method_name = "__mul__" -> Map__mul__(bs, mp, arg)
      [] method_name = "__div__" -> Map__div__(bs, mp, arg)

\* The value of an expression worked out once: the element of the set that
\* holds nothing else.
Only(S) == CHOOSE x \in S : TRUE

\* The calls apply_to_maps makes, from member k on: the heap they leave and
\* the ids of the Maps they return.
RECURSIVE returned_vals(_, _, _, _, _, _)
\* The calls apply_to_maps makes were it to leave out the members whose
\* method raises.
RECURSIVE returned_valsSkipFailed(_, _, _, _, _, _)
returned_valsSkipFailed(bs, ms, S, method_name, args_per_map, k) ==
    IF k > Len(S.maps) THEN [err |-> "", bufs |-> bs, maps |-> ms, out |-> <<>>]
    ELSE Only({ IF r.err # ""
                THEN returned_valsSkipFailed(bs, ms, S, method_name, args_per_map, k + 1)
                ELSE Only({ [rest EXCEPT !.out = <<Len(ms) + 1>> \o rest.out] :
                            rest \in {returned_valsSkipFailed(r.bufs, Append(ms, r.map), S,
                                                              method_name, args_per_map, k + 1)} }) :
                r \in {Method(bs, method_name, ms[S.maps[k]], args_per_map[k].arg)} })

returned_vals(bs, ms, S, method_name, args_per_map, k) ==
    IF k > Len(S.maps) THEN [err |-> "", bufs |-> bs, maps |-> ms, out |-> <<>>]
    ELSE Only({ IF r.err # "" THEN [err |-> r.err]
                ELSE Only({ IF rest.err # "" THEN rest
                            ELSE [rest EXCEPT !.out = <<Len(ms) + 1>> \o rest.out] :
                            rest \in {returned_vals(r.bufs, Append(ms, r.map), S,
                                                    method_name, args_per_map, k + 1)} }) :
                r \in {Method(bs, method_name, ms[S.maps[k]], args_per_map[k].arg)} })

\* MapSet.apply_to_maps were it to give the new MapSet the name and the
\* collate_by_name of self.
apply_to_mapsKeepMode(bs, ms, S, attr, arg) ==
    LET args_per_map == [k \in 1..Len(S.maps) |-> this_map_args(ms, S, k - 1, arg)] IN
    IF \E k \in 1..Len(S.maps) : args_per_map[k].err # ""
    THEN [err |-> args_per_map[CHOOSE k \in 1..Len(S.maps) :
                                  /\ args_per_map[k].err # ""
                                  /\ \A l \in 1..(k - 1) : args_per_map[l].err = ""].err]
    ELSE Only({ IF r.err # "" THEN r
                ELSE [err |-> "", bufs |-> r.bufs, maps |-> r.maps,
                      made |-> [k \in 1..Len(S.maps) |->
                                  [op |-> attr, self |-> S.maps[k], arg |-> args_per_map[k].arg]],
                      set |-> MapSet__init__(r.out, S.name, None, S.collate_by_name)] :
                r \in {returned_vals(bs, ms, S, attr, args_per_map, 1)} })

\* MapSet.apply_to_maps(attr, arg) for a binary operator attr: the arguments
\* are worked out for every member, then the method of each member is
\* called, and the Maps returned are put into a new MapSet.
apply_to_maps(bs, ms, S, attr, arg) ==
    LET args_per_map == [k \in 1..Len(S.maps) |-> this_map_args(ms, S, k - 1, arg)] IN
    IF \E k \in 1..Len(S.maps) : args_per_map[k].err # ""
    THEN [err |-> args_per_map[CHOOSE k \in 1..Len(S.maps) :
                                  /\ args_per_map[k].err # ""
                                  /\ \A l \in 1..(k - 1) : args_per_map[l].err = ""].err]
    ELSE Only({ IF r.err # "" THEN r
                ELSE [err |-> "", bufs |-> r.bufs, maps |-> r.maps,
                      made |-> [k \in 1..Len(S.maps) |->
                                  [op |-> attr, self |-> S.maps[k], arg |-> args_per_map[k].arg]],
                      set |-> MapSet__init__(r.out, None, None, TRUE)] :
                r \in {returned_vals(bs, ms, S, attr, args_per_map, 1)} })

\* MapSet(maps, name=name, collate_by_name=collate_by_name)
ConstructSet(members, name, collate_by_name) ==
    /\ calls < MaxCalls
    /\ calls' = calls + 1
    /\ sets' = Append(sets, MapSet__init__(members, name, None, collate_by_name))
    /\ ret' = Ret("MapSet", 0, members, "", Len(sets) + 1)
    /\ UNCHANGED <<bufs, maps, origin, gens, disk>>

\* sets[s][item]: what is returned is recorded as [kind, out], out the Map,
\* the Maps of the tuple, or the new MapSet.
SetGetItem(s, item) ==
    /\ calls < MaxCalls
    /\ calls' = calls + 1
    /\ \E r \in {MapSet__getitem__(maps, sets[s], item)} :
          IF r.err # ""
          THEN /\ ret' = Ret("MapSet.__getitem__", s, item, r.err, [kind |-> "none"])
               /\ UNCHANGED sets
          ELSE IF r.kind = "MapSet"
          THEN /\ sets' = Append(sets, r.set)
               /\ ret' = Ret("MapSet.__getitem__", s, item, "",
                             [kind |-> "MapSet", out |-> Len(sets) + 1])
          ELSE /\ ret' = Ret("MapSet.__getitem__", s, item, "",
                             [kind |-> r.kind, out |-> r.out])
               /\ UNCHANGED sets
    /\ UNCHANGED <<bufs, maps, origin, gens, disk>>

\* MapSet.collate_with_names(vals): the OrderedDict filled by
\* setitem(ret_dict, name, val) for the members in order, as the sequence of
\* its items.  A key sits where it was first set and holds the value set last.
collate_with_names(ms, S, vals) ==
    LET n     == Len(S.maps)
        name(k) == ms[S.maps[k]].name
        first == {k \in 1..n : \A l \in 1..(k - 1) : name(l) # name(k)}
        last(k) == CHOOSE l \in 1..n :
                      name(l) = name(k) /\ \A j \in (l + 1)..n : name(j) # name(k)
        RECURSIVE items(_)
        items(k) == IF k > n THEN <<>>
                    ELSE IF k \in first
                    THEN <<[key |-> name(k), val |-> vals[last(k)]]>> \o items(k + 1)
                    ELSE items(k + 1)
    IN  items(1)

\* self._hashable_state of a MapSet with members, none of them named
\* _hashable_state: MapSet defines no such attribute, so __getattr__ calls
\* apply_to_maps('_hashable_state'), whose values are not callable and not
\* Maps and are collated with the members' names.
MapSet_hashable_state(bs, ms, S) ==
    collate_with_names(ms, S, [k \in 1..Len(S.maps) |-> hashable_state(bs, ms[S.maps[k]])])

\* pisa.utils.comparisons.recursiveEquality on two ordered mappings of
\* hashable states of Maps: the same keys in the same order, and equal
\* values under each key.
recursiveEqualityItems(x, y) ==
    /\ Len(x) = Len(y)
    /\ \A k \in 1..Len(x) : /\ x[k].key = y[k].key
                            /\ recursiveEquality(x[k].val, y[k].val)

\* MapSet.__eq__(other) for a MapSet other
MapSet__eq__(bs, ms, S, T) ==
    recursiveEqualityItems(MapSet_hashable_state(bs, ms, S), MapSet_hashable_state(bs, ms, T))

\* sets[s] == sets[t]
SetEq(s, t) ==
    /\ ret' = Ret("MapSet.__eq__", s, t, "", MapSet__eq__(bufs, maps, sets[s], sets[t]))
    /\ UNCHANGED <<bufs, maps, origin, sets, gens, disk, calls>>

\* MapSet._serializable_state were it to leave collate_by_name out.
MapSet_serializable_stateNoMode(bs, ms, S) ==
    [maps |-> [k \in 1..Len(S.maps) |-> serializable_state(bs, ms[S.maps[k]])],
     name |-> S.name,
     tex |-> S.tex]

\* MapSet._serializable_state
MapSet_serializable_state(bs, ms, S) ==
    [maps |-> [k \in 1..Len(S.maps) |-> serializable_state(bs, ms[S.maps[k]])],
     name |-> S.name,
     tex |-> S.tex,
     collate_by_name |-> S.collate_by_name]

\* jsons.to_json of the state of a MapSet: the arrays of every member state
\* are written as nested sequences.
MapSet_to_json(state) ==
    [state EXCEPT !.maps = [k \in 1..Len(state.maps) |-> to_json(state.maps[k])]]

\* Map(**m) for the member states m of a file from member k on: the heap the
\* constructors leave and the ids of the Maps made.
RECURSIVE maps_(_, _, _, _)
maps_(bs, ms, states, k) ==
    IF k > Len(states) THEN [err |-> "", bufs |-> bs, maps |-> ms, out |-> <<>>]
    ELSE Only({ IF r.err # "" THEN [err |-> r.err]
                ELSE Only({ IF rest.err # "" THEN rest
                            ELSE [rest EXCEPT !.out = <<Len(ms) + 1>> \o rest.out] :
                            rest \in {maps_(r.bufs, Append(ms, r.map), states, k + 1)} }) :
                r \in {from_json(bs, states[k])} })

\* MapSet.from_json: cls(**state) on the state read from the file; a key
\* the file lacks takes the default of MapSet.__init__.
MapSet_from_json(bs, ms, file) ==
    Only({ IF r.err # "" THEN r
           ELSE [err |-> "", bufs |-> r.bufs, maps |-> r.maps,
                 set |-> MapSet__init__(r.out, file.name, Some(file.tex),
                                        IF "collate_by_name" \in DOMAIN file
                                        THEN file.collate_by_name ELSE TRUE)] :
           r \in {maps_(bs, ms, file.maps, 1)} })

\* sets[s].to_json(file): the file holds the state written.
SetToJson(s) ==
    /\ calls < MaxCalls
    /\ calls' = calls + 1
    /\ disk' = Some([src |-> s, file |-> MapSet_to_json(MapSet_serializable_state(bufs, maps, sets[s]))])
    /\ ret' = Ret("MapSet.to_json", s, None, "", 0)
    /\ UNCHANGED <<bufs, maps, origin, sets, gens>>

\* MapSet.from_json(file)
SetFromJson ==
    /\ disk # None
    /\ calls < MaxCalls
    /\ calls' = calls + 1
    /\ \E r \in {MapSet_from_json(bufs, maps, disk[1].file)} :
       IF r.err = ""
       THEN /\ bufs' = r.bufs
            /\ maps' = r.maps
            /\ origin' = origin \o [k \in 1..Len(disk[1].file.maps) |->
                                      [op |-> "from_json", self |-> sets[disk[1].src].maps[k],
                                       arg |-> disk[1].file.maps[k]]]
            /\ sets' = Append(sets, r.set)
            /\ ret' = Ret("MapSet.from_json", disk[1].src, disk[1].file, "", Len(sets) + 1)
       ELSE /\ UNCHANGED <<bufs, maps, origin, sets>>
            /\ ret' = Ret("MapSet.from_json", disk[1].src, disk[1].file, r.err, 0)
    /\ UNCHANGED <<gens, disk>>

\* np.sum(pisa.utils.stats.chi2(actual_values, expected_values)) and the
\* same for llh: the functions are left uninterpreted, the number a call
\* returns is the term that names the function and holds its arguments.
stats(metric, actual_values, expected_values) ==
    [metric |-> metric, actual_values |-> actual_values, expected_values |-> expected_values]

\* Map.chi2(expected_values) and Map.llh(expected_values), metric the name
\* of the method.
Map_metric(bs, metric, self, expected_values) ==
    IF expected_values.type = "Map"
    THEN [err |-> "", val |-> stats(metric, Read(bs, self.hist), Read(bs, expected_values.map.hist))]
    ELSE IF expected_values.type \in {"scalar", "Variable", "ndarray"}
    THEN [err |-> "", val |-> stats(metric, Read(bs, self.hist), expected_values.arr)]
    ELSE [err |-> "TypeError"]

\* MapSet.apply_to_maps(attr, arg) for attr chi2 or llh: the arguments are
\* worked out for every member, the method of each member is called, and the
\* numbers returned, which are neither Maps nor None, are collated with the
\* members' names.
apply_to_mapsMetric(bs, ms, S, attr, arg) ==
    LET n            == Len(S.maps)
        args_per_map == [k \in 1..n |-> this_map_args(ms, S, k - 1, arg)]
        bad          == {k \in 1..n : args_per_map[k].err # ""}
    IN  IF bad # {} THEN [err |-> args_per_map[CHOOSE k \in bad : \A l \in bad : k <= l].err]
        ELSE LET returned == [k \in 1..n |-> Map_metric(bs, attr, ms[S.maps[k]], args_per_map[k].arg)]
                 failed   == {k \in 1..n : returned[k].err # ""}
             IN  IF failed # {}
                 THEN [err |-> returned[CHOOSE k \in failed : \A l \in failed : k <= l].err]
                 ELSE [err |-> "",
                       out |-> collate_with_names(ms, S, [k \in 1..n |-> returned[k].val])]

\* metric.lower() for the metric names of the model.
LowerMetric ==
    [m \in {"chi2", "CHI2", "llh", "Llh", "mod_chi2", ""} |->
        IF m = "CHI2" THEN "chi2" ELSE IF m = "Llh" THEN "llh" ELSE m]

\* MapSet.metric_per_map(expected_values, metric)
metric_per_map(bs, ms, S, expected_values, metric) ==
    IF LowerMetric[metric] \in {"chi2", "llh"}
    THEN apply_to_mapsMetric(bs, ms, S, LowerMetric[metric], expected_values)
    ELSE [err |-> "ValueError"]

\* MapSet.metric_total(expected_values, metric): np.sum of the values of
\* the dict is given as the sequence of its summands.
metric_total(bs, ms, S, expected_values, metric) ==
    LET r == metric_per_map(bs, ms, S, expected_values, metric) IN
    IF r.err # "" THEN r
    ELSE [err |-> "", out |-> [k \in 1..Len(r.out) |-> r.out[k].val]]

\* sets[s].metric_total(expected_values, metric)
MetricTotal(s, expected_values, metric) ==
    /\ \E r \in {metric_total(bufs, maps, sets[s], expected_values, metric)} :
          ret' = Ret("metric_total", s, [expected_values |-> expected_values, metric |-> metric],
                     r.err, IF r.err = "" THEN r.out ELSE <<>>)
    /\ UNCHANGED <<bufs, maps, origin, sets, gens, disk, calls>>

\* The value assigned to an attribute is [type, v]: type the Python type of
\* the value, v the value as the model holds it (a tex string as the tuple
\* of its pieces, None as the empty tuple).
Value(type, v) == [type |-> type, v |-> v]

\* setattr(mp, attr, val), which is Map.__setattr__ and behind it the
\* setter of the property attr: [err, map].
Map__setattr__(mp, attr, val) ==
    IF attr \notin {"name", "hist", "binning", "hash", "tex", "full_comparison", "parent_indexer"}
    THEN [err |-> "ValueError"]
    ELSE IF attr \in {"hist", "binning"} THEN [err |-> "AttributeError"]
    ELSE IF attr = "name"
    THEN IF val.type # "str" THEN [err |-> "AssertionError"]
         ELSE [err |-> "", map |-> [mp EXCEPT !.name = val.v]]
    ELSE IF attr = "tex"
    THEN IF val.type # "str" THEN [err |-> "AssertionError"]
         ELSE [err |-> "", map |-> [mp EXCEPT !.tex = val.v]]
    ELSE IF attr = "hash"
    THEN [err |-> "", map |-> [mp EXCEPT !.hash = IF val.type = "NoneType" THEN None
                                                  ELSE Some(val.v)]]
    ELSE IF attr = "full_comparison"
    THEN IF val.type # "bool" THEN [err |-> "AssertionError"]
         ELSE [err |-> "", map |-> [mp EXCEPT !.full_comparison = val.v]]
    ELSE [err |-> "", map |-> [mp EXCEPT !.parent_indexer = IF val.type = "NoneType" THEN None
                                                            ELSE Some(val.v)]]

\* attr in MapSet.__slots: __slots is the string '_name', not a tuple, so
\* that this asks whether attr is a substring of it.
InSlots(attr) == attr \in {"", "_", "_n", "_na", "_nam", "_name", "n", "na", "nam", "name",
                           "a", "am", "ame", "m", "me", "e"}

\* The members of S from member k on after setattr(mp, attr, val) on each.
RECURSIVE setattr_per_map(_, _, _, _, _)
setattr_per_map(ms, S, attr, val, k) ==
    IF k > Len(S.maps) THEN [err |-> "", maps |-> ms]
    ELSE Only({ IF r.err # "" THEN r
                ELSE setattr_per_map([ms EXCEPT ![S.maps[k]] = r.map], S, attr, val, k + 1) :
                r \in {Map__setattr__(ms[S.maps[k]], attr, val)} })

\* MapSet.__setattr__ were it to set the attribute on the first member only.
MapSet__setattr__FirstOnly(ms, S, attr, val) ==
    IF InSlots(attr) THEN [err |-> "TypeError"]
    ELSE LET r == Map__setattr__(ms[S.maps[1]], attr, val) IN
         IF r.err # "" THEN r ELSE [err |-> "", maps |-> [ms EXCEPT ![S.maps[1]] = r.map]]

\* MapSet.__setattr__(attr, val): [err, maps].  object.__setattr__(attr,
\* val) is called without self and raises TypeError; every other attribute
\* is set on each member in turn.
MapSet__setattr__(ms, S, attr, val) ==
    IF InSlots(attr) THEN [err |-> "TypeError"]
    ELSE setattr_per_map(ms, S, attr, val, 1)

\* sets[s].attr = val.  When a member's setter raises, the members before
\* it keep the value set; the setters of the model raise for every member
\* or for none.
SetSetAttr(s, attr, val) ==
    /\ calls < MaxCalls
    /\ calls' = calls + 1
    /\ \E r \in {MapSet__setattr__(maps, sets[s], attr, val)} :
          IF r.err = ""
          THEN /\ maps' = r.maps
               /\ ret' = Ret("MapSet.__setattr__", s, [attr |-> attr, val |-> val], "", 0)
          ELSE /\ UNCHANGED maps
               /\ ret' = Ret("MapSet.__setattr__", s, [attr |-> attr, val |-> val], r.err, 0)
    /\ UNCHANGED <<bufs, origin, sets, gens, disk>>

\* MapSet.apply_to_maps('set_poisson_errors'): the method of each member is
\* called in turn from member k on; each call returns None.  When a call
\* raises, the members before it keep their new errors: [err, bufs, maps].
RECURSIVE apply_to_mapsNone(_, _, _, _)
apply_to_mapsNone(bs, ms, S, k) ==
    IF k > Len(S.maps) THEN [err |-> "", bufs |-> bs, maps |-> ms]
    ELSE Only({ IF r.err # "" THEN [err |-> r.err, bufs |-> bs, maps |-> ms]
                ELSE apply_to_mapsNone(r.bufs, [ms EXCEPT ![S.maps[k]] = r.map], S, k + 1) :
                r \in {set_poisson_errors(bs, ms[S.maps[k]])} })

\* sets[s].apply_to_maps(attr, arg) for attr a method of Map that returns a
\* Map (the binary operators), None (set_poisson_errors, which takes no
\* argument) or a number (chi2, llh).  What the call returns is recorded as
\* [kind, out]: a new MapSet, None, or the items of an OrderedDict.
ApplyToMaps(s, attr, arg) ==
    /\ calls < MaxCalls
    /\ calls' = calls + 1
    /\ IF attr \in {"chi2", "llh"}
       THEN \E r \in {apply_to_mapsMetric(bufs, maps, sets[s], attr, arg)} :
               /\ ret' = Ret("MapSet.apply_to_maps", s, [attr |-> attr, arg |-> arg], r.err,
                             IF r.err = "" THEN [kind |-> "OrderedDict", out |-> r.out]
                             ELSE [kind |-> "none"])
               /\ UNCHANGED <<bufs, maps, origin, sets>>
       ELSE IF attr = "set_poisson_errors"
       THEN \E r \in {apply_to_mapsNone(bufs, maps, sets[s], 1)} :
               /\ bufs' = r.bufs
               /\ maps' = r.maps
               /\ ret' = Ret("MapSet.apply_to_maps", s, [attr |-> attr, arg |-> arg], r.err,
                             IF r.err = "" THEN [kind |-> "None"] ELSE [kind |-> "none"])
               /\ UNCHANGED <<origin, sets>>
       ELSE \E r \in {apply_to_maps(bufs, maps, sets[s], attr, arg)} :
               IF r.err = ""
               THEN /\ bufs' = r.bufs
                    /\ maps' = r.maps
                    /\ origin' = origin \o r.made
                    /\ sets' = Append(sets, r.set)
                    /\ ret' = Ret("MapSet.apply_to_maps", s, [attr |-> attr, arg |-> arg], "",
                                  [kind |-> "MapSet", out |-> Len(sets) + 1])
               ELSE /\ UNCHANGED <<bufs, maps, origin, sets>>
                    /\ ret' = Ret("MapSet.apply_to_maps", s, [attr |-> attr, arg |-> arg], r.err,
                                  [kind |-> "none"])
    /\ UNCHANGED <<gens, disk>>

\* [getitem(m, item) for m in self] from member k on: the heap the calls
\* leave and the ids of the Maps they return.
RECURSIVE getitem_per_map(_, _, _, _, _)
getitem_per_map(bs, ms, S, item, k) ==
    IF k > Len(S.maps) THEN [err |-> "", bufs |-> bs, maps |-> ms, out |-> <<>>]
    ELSE Only({ IF r.err # "" THEN [err |-> r.err]
                ELSE Only({ IF rest.err # "" THEN rest
                            ELSE [rest EXCEPT !.out = <<Len(ms) + 1>> \o rest.out] :
                            rest \in {getitem_per_map(r.bufs, Append(ms, r.map), S, item, k + 1)} }) :
                r \in {index(bs, ms[S.maps[k]], item)} })

\* MapSet.__getitem__(item) for a tuple item: a tuple of one component
\* indexes the tuple of members, which raises TypeError; a tuple of two
\* components indexes the bins of every member, and the Maps returned are
\* put into a new MapSet; a longer one raises IndexError.
MapSet__getitem__Sequence(bs, ms, S, item) ==
    IF Len(item.comps) = 1 THEN [err |-> "TypeError"]
    ELSE IF Len(item.comps) = 2
    THEN Only({ IF r.err # "" THEN r
                ELSE [err |-> "", bufs |-> r.bufs, maps |-> r.maps,
                      set |-> MapSet__init__(r.out, None, None, TRUE)] :
                r \in {getitem_per_map(bs, ms, S, item, 1)} })
    ELSE [err |-> "IndexError"]

\* sets[s][item] for a tuple item
SetGetItemSequence(s, item) ==
    /\ calls < MaxCalls
    /\ calls' = calls + 1
    /\ \E r \in {MapSet__getitem__Sequence(bufs, maps, sets[s], item)} :
       IF r.err = ""
       THEN /\ bufs' = r.bufs
            /\ maps' = r.maps
            /\ origin' = origin \o [k \in 1..Len(sets[s].maps) |->
                                      [op |-> "__getitem__", self |-> sets[s].maps[k], arg |-> item]]
            /\ sets' = Append(sets, r.set)
            /\ ret' = Ret("MapSet.__getitem__", s, item, "",
                          [kind |-> "MapSet", out |-> Len(sets) + 1])
       ELSE /\ UNCHANGED <<bufs, maps, origin, sets>>
            /\ ret' = Ret("MapSet.__getitem__", s, item, r.err, [kind |-> "none"])
    /\ UNCHANGED <<gens, disk>>

\* sets[s] + arg, sets[s] - arg, sets[s] * arg, sets[s] / arg, each of
\* which is apply_to_maps(attr, arg) with attr the name of the Map method.
SetOp(attr, s, arg) ==
    /\ calls < MaxCalls
    /\ calls' = calls + 1
    /\ \E r \in {apply_to_maps(bufs, maps, sets[s], attr, arg)} :
       IF r.err = ""
       THEN /\ bufs' = r.bufs
            /\ maps' = r.maps
            /\ origin' = origin \o r.made
            /\ sets' = Append(sets, r.set)
            /\ ret' = Ret("apply_to_maps", s, [attr |-> attr, arg |-> arg], "", Len(sets) + 1)
       ELSE /\ UNCHANGED <<bufs, maps, origin, sets>>
            /\ ret' = Ret("apply_to_maps", s, [attr |-> attr, arg |-> arg], r.err, 0)
    /\ UNCHANGED <<gens, disk>>

(***************************************************************************)
(* The inputs of the model.                                                *)
(***************************************************************************)
\* The binning of r energy bins and c coszen bins from bin 0 of each axis.
Binning(r, c) ==
    MultiDimBinning(<<OneDimBinning("energy", 0, r), OneDimBinning("coszen", 0, c)>>)

\* The array of the given shape holding 1, 2, 3, ... in row-major order.
Ramp(sh) == Arr(sh, [i \in 1..Size(sh) |-> Num(i)])

Full == <<NumE, NumCz>>

Row == <<1, NumCz>>

Empty ==
    /\ bufs = <<>>
    /\ maps = <<>>
    /\ origin = <<>>
    /\ sets = <<>>
    /\ gens = <<>>
    /\ disk = None
    /\ calls = 0
    /\ ret = Ret("", 0, None, "", 0)

(***************************************************************************)
(* Spec: the life of Maps.  Maps are built on a binning of NumE x NumCz    *)
(* bins or on one row of it, from arrays that fit the binning and arrays   *)
(* that do not, and are then changed in place, indexed, iterated,          *)
(* fluctuated and combined with scalars, arrays and Maps.                  *)
(***************************************************************************)
Init == Empty

Next ==
    \/ \E h \in {Ramp(Full), Ramp(Row)}, b \in {Binning(NumE, NumCz), Binning(1, NumCz)},
          e \in {None, Some(Fill(Full, Num(1)))} :
          Construct("x", h, b, e, None, None, TRUE)
    \/ \E i \in MapIds, e \in {None, Some(Scalar(Num(1))), Some(Fill(Row, Num(2)))} :
          SetErrors(i, e)
    \/ \E i \in MapIds : SetPoissonErrors(i)
    \/ \E i \in MapIds : SetItem(i, Tuple(<<IntC(0), IntC(0)>>), Num(7))
    \/ \E i \in MapIds,
          idx \in {Tuple(<<IntC(0), SliceC(0, NumCz)>>), Tuple(<<IntC(0), IntC(1)>>),
                   Tuple(<<SliceC(0, NumE), SliceC(0, 1)>>)} :
          GetItem(i, idx)
    \/ \E i \in MapIds, o \in {ArrayArg(Fill(Full, Num(1)))} \cup {MapArg(j) : j \in MapIds} :
          Add(i, o)
    \/ \E i \in MapIds, o \in {MapArg(j) : j \in MapIds} : Sub(i, o)
    \/ \E i \in MapIds, o \in {ScalarArg(Num(2)), ArrayArg(Fill(<<NumE, 1>>, Num(0)))} : Mul(i, o)
    \/ \E i \in MapIds, o \in {ScalarArg(Num(2))} \cup {MapArg(j) : j \in MapIds} : Div(i, o)
    \/ \E i \in MapIds : Neg(i)
    \/ \E i \in MapIds, m \in {"poisson"} : Fluctuate(i, m, {3})
    \/ \E i \in MapIds : IterBins(i)
    \/ \E g \in 1..Len(gens) : GenNext(g)

Spec == Init /\ [][Next]_vars

(***************************************************************************)
(* Behaviours that start with Maps already built.  New(bs, ...) is the     *)
(* constructor call on a new array, Made the origin of a Map so built, and *)
(* Start(bs, ms, os) the state before any call whose heap holds the        *)
(* buffers bs and the Maps ms, os naming the call that made each Map.      *)
(***************************************************************************)
New(bs, name, hist, binning, error_hist, hash, tex, full_comparison) ==
    Map__init__(Alloc(bs, hist), name, FullView(Len(bs) + 1, hist.sh), binning, error_hist,
                hash, tex, full_comparison)

Made == [op |-> "Map", self |-> 0, arg |-> None]

Start(bs, ms, os) ==
    /\ bufs = bs
    /\ maps = ms
    /\ origin = os
    /\ sets = <<>>
    /\ gens = <<>>
    /\ disk = None
    /\ calls = 0
    /\ ret = Ret("", 0, None, "", 0)

(***************************************************************************)
(* SpecJson: a Map, with errors, with errors that are all zero, with       *)
(* errors in some bins or without errors, is given other errors or         *)
(* divided, written with to_json, read back with from_json and compared    *)
(* with the Map it was written from.  All values are finite.               *)
(***************************************************************************)
InitJson ==
    \E name \in {"x", "nue"}, hash \in {None, Some(5)}, fc \in BOOLEAN,
       e \in {None, Some(Fill(Full, Num(0))), Some(Arr(Full, [i \in 1..Size(Full) |-> Num(i - 1)]))} :
       LET r == New(<<>>, name, Ramp(Full), Binning(NumE, NumCz), e, hash, None, fc) IN
       Start(r.bufs, <<r.map>>, <<Made>>)

\* The Maps that were not read from a file: a Map read back is left as read.
Written == {i \in MapIds : origin[i].op # "from_json"}

NextJson ==
    \/ \E i \in Written : SetPoissonErrors(i)
    \/ \E i \in Written : SetErrors(i, None)
    \/ \E i \in Written : Div(i, ScalarArg(Num(3)))
    \/ \E i \in MapIds : ToJson(i)
    \/ FromJson
    \/ \E i \in MapIds : origin[i].op = "from_json" /\ Eq(i, MapArg(origin[i].self))

SpecJson == InitJson /\ [][NextJson]_vars


(***************************************************************************)
(* SpecEq: two Maps a and b, b like a or unlike it in one respect (its     *)
(* name, its values, its errors, its binning or its tex), each with or     *)
(* without full_comparison, are given hashes and compared.                 *)
(***************************************************************************)
\* The second Map of SpecEq, by the respect in which it is unlike the first.
Unlike(bs, kind, fc) ==
    New(bs,
        IF kind = "name" THEN "y" ELSE "x",
        IF kind = "hist" THEN Fill(Row, Num(1)) ELSE Ramp(Row),
        IF kind = "binning"
        THEN MultiDimBinning(<<OneDimBinning("energy", 1, 1), OneDimBinning("coszen", 0, NumCz)>>)
        ELSE Binning(1, NumCz),
        IF kind = "errors" THEN Some(Fill(Row, Num(1)))
        ELSE IF kind = "zero errors" THEN Some(Fill(Row, Num(0))) ELSE None,
        None,
        IF kind = "tex" THEN Some(<<"y">>) ELSE None,
        fc)

InitEq ==
    \E kind \in {"same", "zero errors", "name", "hist", "errors", "binning", "tex"},
       fca \in BOOLEAN, fcb \in BOOLEAN :
       LET a == New(<<>>, "x", Ramp(Row), Binning(1, NumCz), None, None, None, fca)
           b == Unlike(a.bufs, kind, fcb)
       IN  Start(b.bufs, <<a.map, b.map>>, <<Made, Made>>)

NextEq ==
    \/ \E i \in MapIds, v \in {Some(5), Some(6)} : SetHash(i, v)
    \/ \E i \in MapIds, j \in MapIds : Eq(i, MapArg(j))

SpecEq == InitEq /\ [][NextEq]_vars

(***************************************************************************)
(* SpecComm: two Maps a and b on the same binning, of the same name or of  *)
(* different names, each with full_comparison or with a hash, are added    *)
(* and multiplied in both orders, and the results of the two orders are    *)
(* compared.  All values are finite.                                       *)
(***************************************************************************)
\* maps[p] is x op y and maps[q] is y op x, op being + or *, x and y Maps.
Commuted(p, q) ==
    /\ origin[p].op \in {"__add__", "__mul__"}
    /\ origin[q].op = origin[p].op
    /\ origin[p].arg.type = "Map"
    /\ origin[q].arg.type = "Map"
    /\ origin[q].self = origin[p].arg.id
    /\ origin[q].arg.id = origin[p].self

InitComm ==
    \E nb \in {"x", "y"}, ha \in {None, Some(5)}, hb \in {None, Some(5), Some(6)} :
       LET a == New(<<>>, "x", Ramp(Row), Binning(1, NumCz), Some(Fill(Row, Num(1))),
                    ha, None, ha = None)
           b == New(a.bufs, nb, Fill(Row, Num(3)), Binning(1, NumCz), Some(Ramp(Row)),
                    hb, None, hb = None)
       IN  Start(b.bufs, <<a.map, b.map>>, <<Made, Made>>)

NextComm ==
    \/ \E i \in {1, 2} : Add(i, MapArg(3 - i))
    \/ \E i \in {1, 2} : Mul(i, MapArg(3 - i))
    \/ \E p \in MapIds, q \in MapIds : Commuted(p, q) /\ Eq(p, MapArg(q))

SpecComm == InitComm /\ [][NextComm]_vars

(***************************************************************************)
(* SpecArith: expressions over two Maps a and b on the same binning, a of  *)
(* 1 +- 1, 2 +- 1 or a bare 2 in every bin, b of a bare 2 or 3 +- 0.  Each  *)
(* call is made on the result of the call before it, the first on a, with  *)
(* a scalar, b or the Map itself as the other operand; the result of       *)
(* m + 0 or m * 1 is compared with m.  All values are finite and no        *)
(* divisor is zero.                                                        *)
(***************************************************************************)
\* The Map the next call is made on.
Cur == IF Len(maps) > 2 THEN Len(maps) ELSE 1

\* maps[p] is m + 0 or m * 1.
Identity(p) ==
    \/ origin[p].op = "__add__" /\ origin[p].arg = ScalarArg(Num(0))
    \/ origin[p].op = "__mul__" /\ origin[p].arg = ScalarArg(Num(1))

InitArith ==
    \E va \in {<<1, 1>>, <<2, 1>>, <<2, 0>>}, vb \in {<<2, 0>>, <<3, 1>>} :
       LET a == New(<<>>, "x", Fill(Row, Num(va[1])), Binning(1, NumCz),
                    IF va[2] = 0 THEN None ELSE Some(Fill(Row, Num(1))), None, None, TRUE)
           b == New(a.bufs, "y", Fill(Row, Num(vb[1])), Binning(1, NumCz),
                    IF vb[2] = 0 THEN None ELSE Some(Fill(Row, Num(0))), None, None, TRUE)
       IN  Start(b.bufs, <<a.map, b.map>>, <<Made, Made>>)

NextArith ==
    \/ \E o \in {ScalarArg(Num(0)), ScalarArg(Num(8)), MapArg(2)} : Add(Cur, o)
    \/ Sub(Cur, MapArg(Cur))
    \/ \E o \in {ScalarArg(Num(1)), ScalarArg(Num(-1))} : Mul(Cur, o)
    \/ RMul(Cur, ScalarArg(Num(2)))
    \/ \E o \in {ScalarArg(Num(-2)), MapArg(2)} : Div(Cur, o)
    \/ \E p \in MapIds : Identity(p) /\ Eq(p, MapArg(origin[p].self))

SpecArith == InitArith /\ [][NextArith]_vars

(***************************************************************************)
(* SpecSet: five Maps on the same binning, named x, y, x, y and z, are     *)
(* put into MapSets that align by name or by position, and a MapSet is     *)
(* combined with a MapSet or with a scalar.  No value is zero, so that no  *)
(* division fails.                                                         *)
(***************************************************************************)
InitSet ==
    LET B  == Binning(1, NumCz)
        m1 == New(<<>>, "x", Fill(Row, Num(1)), B, Some(Fill(Row, Num(1))), None, None, TRUE)
        m2 == New(m1.bufs, "y", Fill(Row, Num(2)), B, None, None, None, TRUE)
        m3 == New(m2.bufs, "x", Fill(Row, Num(3)), B, None, None, None, TRUE)
        m4 == New(m3.bufs, "y", Ramp(Row), B, Some(Fill(Row, Num(2))), None, None, TRUE)
        m5 == New(m4.bufs, "z", Fill(Row, Num(5)), B, None, None, None, TRUE)
    IN  Start(m5.bufs, <<m1.map, m2.map, m3.map, m4.map, m5.map>>,
              <<Made, Made, Made, Made, Made>>)

NextSet ==
    \/ \E ms \in {<<1, 2>>, <<3, 4>>, <<4, 3>>, <<3, 5>>, <<4>>, <<4, 3, 3>>},
          collate_by_name \in BOOLEAN :
          ConstructSet(ms, None, collate_by_name)
    \/ \E attr \in {"__add__", "__mul__", "__div__"},
          s \in 1..Len(sets), t \in 1..Len(sets) :
          SetOp(attr, s, SetArg(t))
    \/ \E s \in 1..Len(sets) : SetOp("__add__", s, ScalarArg(Num(1)))

SpecSet == InitSet /\ [][NextSet]_vars

(***************************************************************************)
(* SpecIndex: a Map of 4 x 5 bins or of NumE x NumCz bins, with errors, is *)
(* indexed, and the Map that gives is indexed in turn.  Each component of  *)
(* an index is the first or the last bin of its axis, its first two bins   *)
(* or all its bins but the first; on an axis of one bin the latter two     *)
(* are not valid.                                                          *)
(***************************************************************************)
\* The index components tried on an axis of n bins.
Comps(n) == {IntC(0), IntC(n - 1), SliceC(0, 2), SliceC(1, n)}

InitIndex ==
    \E sh \in {<<4, 5>>, Full} :
       LET r == New(<<>>, "x", Ramp(sh), Binning(sh[1], sh[2]), Some(Ramp(sh)),
                    Some(5), None, TRUE)
       IN  Start(r.bufs, <<r.map>>, <<Made>>)

NextIndex ==
    \E c1 \in Comps(maps[Len(maps)].hist.sh[1]), c2 \in Comps(maps[Len(maps)].hist.sh[2]) :
        GetItem(Len(maps), Tuple(<<c1, c2>>))

SpecIndex == InitIndex /\ [][NextIndex]_vars

(***************************************************************************)
(* SpecIter: a Map, with or without errors, of NumE x NumCz bins or of one *)
(* row of them, is iterated with iterbins or iterindices; between the      *)
(* steps of the generator a value is written into the first bin of the Map *)
(* or of a Map yielded, and the Map or a Map yielded is given errors.      *)
(***************************************************************************)
InitIter ==
    \E sh \in {Full, Row}, errors \in BOOLEAN :
       LET e == IF errors THEN Some(Fill(sh, Num(1))) ELSE None
           r == New(<<>>, "x", Ramp(sh), Binning(sh[1], sh[2]), e, None, None, TRUE)
       IN  Start(r.bufs, <<r.map>>, <<Made>>)

NextIter ==
    \/ IterBins(1)
    \/ IterIndices(1)
    \/ \E g \in 1..Len(gens) : GenNext(g)
    \/ \E i \in MapIds : SetItem(i, Tuple(<<IntC(0), IntC(0)>>), Num(7))
    \/ \E i \in MapIds : SetPoissonErrors(i)

SpecIter == InitIter /\ [][NextIter]_vars

(***************************************************************************)
(* SpecFlag: two Maps a and b on the same binning, a with errors and b     *)
(* without, each with full_comparison set or not, are combined by + - * /  *)
(* and **: a with b, a with a scalar and b with a plain array.  b is 2 in  *)
(* every bin, so it can be an exponent.                                    *)
(***************************************************************************)
InitFlag ==
    \E fa \in BOOLEAN, fb \in BOOLEAN :
       LET a == New(<<>>, "x", Ramp(Row), Binning(1, NumCz), Some(Fill(Row, Num(1))),
                    Some(5), None, fa)
           b == New(a.bufs, "y", Fill(Row, Num(2)), Binning(1, NumCz), None,
                    Some(6), None, fb)
       IN  Start(b.bufs, <<a.map, b.map>>, <<Made, Made>>)

\* The calls of SpecFlag: a with b, a with a scalar, b with a plain array.
Operands == {<<1, MapArg(2)>>, <<1, ScalarArg(Num(2))>>, <<2, ArrayArg(Fill(Row, Num(2)))>>}

NextFlag ==
    \/ \E c \in Operands : Add(c[1], c[2])
    \/ \E c \in Operands : Sub(c[1], c[2])
    \/ \E c \in Operands : Mul(c[1], c[2])
    \/ \E c \in Operands : Div(c[1], c[2])
    \/ \E c \in Operands : Pow(c[1], c[2])

SpecFlag == InitFlag /\ [][NextFlag]_vars

(***************************************************************************)
(* SpecCompat: three Maps whose binnings are not compatible are combined   *)
(* by + - * / and **: a and b have binnings of the same shape, one row,    *)
(* over different energy bins, and c has NumE rows over the energy bins    *)
(* from that of a on.                                                      *)
(***************************************************************************)
InitCompat ==
    LET a == New(<<>>, "x", Ramp(Row), Binning(1, NumCz), None, None, None, TRUE)
        b == New(a.bufs, "y", Fill(Row, Num(2)),
                 MultiDimBinning(<<OneDimBinning("energy", 1, 1),
                                   OneDimBinning("coszen", 0, NumCz)>>),
                 None, None, None, TRUE)
        c == New(b.bufs, "z", Ramp(Full), Binning(NumE, NumCz), None, None, None, TRUE)
    IN  Start(c.bufs, <<a.map, b.map, c.map>>, <<Made, Made, Made>>)

\* The calls of SpecCompat: a with b, c with a, a with c.
Unfit == {<<1, 2>>, <<3, 1>>, <<1, 3>>}

NextCompat ==
    \/ \E c \in Unfit : Add(c[1], MapArg(c[2]))
    \/ \E c \in Unfit : Sub(c[1], MapArg(c[2]))
    \/ \E c \in Unfit : Mul(c[1], MapArg(c[2]))
    \/ \E c \in Unfit : Div(c[1], MapArg(c[2]))
    \/ \E c \in Unfit : Pow(c[1], MapArg(c[2]))

SpecCompat == InitCompat /\ [][NextCompat]_vars

(***************************************************************************)
(* SpecFrame: every arithmetic operation and fluctuate are called on two   *)
(* Maps a and b of one row, a with or without errors and b without, and a  *)
(* value is written into the first bin of a Map such a call returned.  The *)
(* binary operators combine a with b, the reflected ones a with a scalar.  *)
(***************************************************************************)
InitFrame ==
    \E errors \in BOOLEAN :
       LET a == New(<<>>, "x", Ramp(Row), Binning(1, NumCz),
                    IF errors THEN Some(Fill(Row, Num(1))) ELSE None, Some(5), None, FALSE)
           b == New(a.bufs, "y", Fill(Row, Num(2)), Binning(1, NumCz), None,
                    Some(6), None, TRUE)
       IN  Start(b.bufs, <<a.map, b.map>>, <<Made, Made>>)

NextFrame ==
    \/ Add(1, MapArg(2))
    \/ Sub(1, MapArg(2))
    \/ Mul(1, MapArg(2))
    \/ Div(1, MapArg(2))
    \/ Pow(1, MapArg(2))
    \/ RAdd(1, ScalarArg(Num(3)))
    \/ RSub(1, ScalarArg(Num(3)))
    \/ RMul(1, ScalarArg(Num(3)))
    \/ RDiv(1, ScalarArg(Num(3)))
    \/ Neg(1)
    \/ AbsOf(1)
    \/ \E i \in {1, 2} : Sqrt(i)
    \/ \E i \in {1, 2} : Log(i)
    \/ \E i \in {1, 2} : Log10(i)
    \/ \E method \in {"poisson", "None", "gauss"} : Fluctuate(2, method, {1})
    \/ \E r \in MapIds \ {1, 2} : SetItem(r, Tuple(<<IntC(0), IntC(0)>>), Num(7))

SpecFrame == InitFrame /\ [][NextFrame]_vars

(***************************************************************************)
(* SpecHash: two Maps, one made without a hash and one with the hash 5,    *)
(* are hashed, and given another hash or none, in any order.               *)
(***************************************************************************)
InitHash ==
    LET a == New(<<>>, "x", Ramp(Row), Binning(1, NumCz), None, None, None, TRUE)
        b == New(a.bufs, "y", Ramp(Row), Binning(1, NumCz), None, Some(5), None, FALSE)
    IN  Start(b.bufs, <<a.map, b.map>>, <<Made, Made>>)

NextHash ==
    \/ \E i \in MapIds, value \in {None, Some(5), Some(6), Some(7)} : SetHash(i, value)
    \/ \E i \in MapIds : Hash(i)

SpecHash == InitHash /\ [][NextHash]_vars

(***************************************************************************)
(* SpecLookup: the five Maps of SpecSet, named x, y, x, y and z, are put   *)
(* into MapSets, and members are looked up in them by name, by position    *)
(* and by slice.                                                           *)
(***************************************************************************)
\* The items looked up: names of members and of none, positions, slices
\* that select none, one or several members.
Items ==
    {[type |-> "str", v |-> v] : v \in {"x", "y", "z", "w"}}
    \cup {[type |-> "int", v |-> v] : v \in {0, 1, -1, 3}}
    \cup {[type |-> "slice", a |-> c[1], b |-> c[2]] : c \in {<<0, 1>>, <<1, 2>>, <<0, 2>>, <<1, 3>>, <<2, 2>>}}

NextLookup ==
    \/ \E ms \in {<<1, 2>>, <<4, 3, 1>>, <<5>>, <<2, 3, 4, 5>>}, collate_by_name \in BOOLEAN :
          ConstructSet(ms, None, collate_by_name)
    \/ \E s \in 1..Len(sets), item \in Items : SetGetItem(s, item)

SpecLookup == InitSet /\ [][NextLookup]_vars

(***************************************************************************)
(* SpecSetEq: the five Maps of SpecSet, named x, y, x, y and z, are put    *)
(* into MapSets with and without a name, aligned by name or by position,   *)
(* and the MapSets are compared with ==.                                   *)
(***************************************************************************)
\* The MapSets made: members, name and collate_by_name.
Collections ==
    {<<(<<1, 2>>), None, TRUE>>, <<(<<1, 2>>), Some("s"), TRUE>>,
     <<(<<1, 2>>), None, FALSE>>, <<(<<2, 1>>), None, TRUE>>,
     <<(<<1, 3>>), None, TRUE>>, <<(<<3>>), None, TRUE>>}

NextSetEq ==
    \/ \E c \in Collections : ConstructSet(c[1], c[2], c[3])
    \/ \E s \in 1..Len(sets), t \in 1..Len(sets) : SetEq(s, t)

SpecSetEq == InitSet /\ [][NextSetEq]_vars

(***************************************************************************)
(* SpecSetJson: the five Maps of SpecSet, two of them with errors, are put *)
(* into MapSets with and without a name, aligned by name or by position,   *)
(* a member is given errors, and the MapSets are written with        *)
(* to_json, read back with from_json and compared.                         *)
(***************************************************************************)
NextSetJson ==
    \/ \E c \in Collections \cup {<<(<<4, 2, 5>>), Some("s"), FALSE>>} :
          ConstructSet(c[1], c[2], c[3])
    \/ \E s \in 1..Len(sets) : SetToJson(s)
    \/ SetFromJson
    \/ SetPoissonErrors(2)
    \/ \E s \in 1..Len(sets), t \in 1..Len(sets) : s # t /\ SetEq(s, t)

SpecSetJson == InitSet /\ [][NextSetJson]_vars

(***************************************************************************)
(* SpecDispatch: Maps named x, y, x, y and z, the second y of another      *)
(* shape than the others, are put into MapSets that align by name or by    *)
(* position, and the MapSets are added and divided.  A member of a MapSet  *)
(* may find no partner in the other MapSet, by name or by position, and a  *)
(* member may find a partner of a shape it cannot be combined with.        *)
(***************************************************************************)
InitDispatch ==
    LET B  == Binning(1, NumCz)
        m1 == New(<<>>, "x", Fill(Row, Num(1)), B, Some(Fill(Row, Num(1))), None, None, TRUE)
        m2 == New(m1.bufs, "y", Fill(Row, Num(2)), B, None, None, None, TRUE)
        m3 == New(m2.bufs, "x", Fill(Row, Num(3)), B, None, None, None, TRUE)
        m4 == New(m3.bufs, "y", Ramp(Full), Binning(NumE, NumCz), None, None, None, TRUE)
        m5 == New(m4.bufs, "z", Fill(Row, Num(5)), B, None, None, None, TRUE)
    IN  Start(m5.bufs, <<m1.map, m2.map, m3.map, m4.map, m5.map>>,
              <<Made, Made, Made, Made, Made>>)

NextDispatch ==
    \/ \E ms \in {<<1, 2>>, <<3, 4>>, <<3, 5>>, <<3>>, <<2, 3>>}, collate_by_name \in BOOLEAN :
          ConstructSet(ms, None, collate_by_name)
    \/ \E attr \in {"__add__", "__div__"}, s \in 1..Len(sets), t \in 1..Len(sets) :
          SetOp(attr, s, SetArg(t))

SpecDispatch == InitDispatch /\ [][NextDispatch]_vars

(***************************************************************************)
(* SpecMetric: the five Maps of SpecSet, named x, y, x, y and z, are put   *)
(* into MapSets, among them MapSets with two members of one name, and      *)
(* metric_total is called on them with an array or a MapSet as the         *)
(* expectation.                                                            *)
(***************************************************************************)
NextMetric ==
    \/ \E c \in {<<(<<1, 2>>), TRUE>>, <<(<<1, 3>>), TRUE>>, <<(<<3, 4>>), FALSE>>,
                  <<(<<2, 1, 3>>), TRUE>>} :
          ConstructSet(c[1], None, c[2])
    \/ \E s \in 1..Len(sets), metric \in DOMAIN LowerMetric :
          MetricTotal(s, ArrayArg(Fill(Row, Num(2))), metric)
    \/ \E s \in 1..Len(sets), t \in 1..Len(sets), metric \in {"chi2", "Llh"} :
          MetricTotal(s, SetArg(t), metric)

SpecMetric == InitSet /\ [][NextMetric]_vars

(***************************************************************************)
(* SpecIndex1D: the Maps of SpecIndex are indexed as there, and also with  *)
(* an index of one component: a bare integer, a bare slice, or a tuple of  *)
(* one integer or slice.                                                   *)
(***************************************************************************)
\* The indices of one component.
OneDim ==
    {Bare(IntC(0)), Bare(IntC(1)), Bare(SliceC(0, 2)),
     Tuple(<<IntC(0)>>), Tuple(<<SliceC(0, 2)>>)}

NextIndex1D ==
    \/ NextIndex
    \/ \E i \in MapIds, idx \in OneDim : GetItem(i, idx)

SpecIndex1D == InitIndex /\ [][NextIndex1D]_vars

(***************************************************************************)
(* SpecSetAttr: the five Maps of SpecSet are put into MapSets with and     *)
(* without a name, attributes are assigned on the MapSets (name, tex,      *)
(* hash, full_comparison, maps, collate_by_name), and a scalar is added to *)
(* a MapSet.                                                               *)
(***************************************************************************)
\* The assignments made: attribute and value.
Assignments ==
    {<<"name", Value("str", "n")>>, <<"tex", Value("str", <<"t">>)>>,
     <<"hash", Value("int", 7)>>, <<"hash", Value("NoneType", None)>>,
     <<"full_comparison", Value("bool", FALSE)>>, <<"full_comparison", Value("str", "no")>>,
     <<"maps", Value("tuple", <<5>>)>>, <<"collate_by_name", Value("bool", FALSE)>>}

NextSetAttr ==
    \/ \E c \in {<<(<<1, 2>>), None, TRUE>>, <<(<<2, 3>>), Some("s"), FALSE>>,
                 <<(<<4, 3, 1>>), Some("s"), TRUE>>} :
          ConstructSet(c[1], c[2], c[3])
    \/ \E s \in 1..Len(sets), a \in Assignments : SetSetAttr(s, a[1], a[2])
    \/ \E s \in 1..Len(sets) : SetOp("__add__", s, ScalarArg(Num(1)))

SpecSetAttr == InitSet /\ [][NextSetAttr]_vars

(***************************************************************************)
(* SpecApply: the five Maps of SpecSet, named x, y, x, y and z, are put    *)
(* into MapSets, among them MapSets with two members of one name, and      *)
(* apply_to_maps is called on them with methods that return Maps, None or  *)
(* numbers.                                                                *)
(***************************************************************************)
NextApply ==
    \/ \E c \in {<<(<<2, 3>>), TRUE>>, <<(<<1, 3>>), TRUE>>, <<(<<2, 5, 3>>), FALSE>>,
                 <<(<<3, 2, 3>>), TRUE>>} :
          ConstructSet(c[1], None, c[2])
    \/ \E s \in 1..Len(sets), attr \in {"__add__", "__mul__", "chi2", "llh"} :
          ApplyToMaps(s, attr, ArrayArg(Fill(Row, Num(2))))
    \/ \E s \in 1..Len(sets), t \in 1..Len(sets), attr \in {"__sub__", "chi2"} :
          ApplyToMaps(s, attr, SetArg(t))
    \/ \E s \in 1..Len(sets) : ApplyToMaps(s, "set_poisson_errors", None)

SpecApply == InitSet /\ [][NextApply]_vars

(***************************************************************************)
(* SpecPoisson: a Map of one row with a hash, its bins holding -1, 0, 2 or *)
(* 4, is given Poisson errors, has its errors removed and set, and has a   *)
(* bin overwritten.                                                        *)
(***************************************************************************)
InitPoisson ==
    \E v1 \in {-1, 0, 2, 4}, v2 \in {-1, 0, 2, 4}, fc \in BOOLEAN :
       LET r == New(<<>>, "x", Arr(Row, [i \in 1..Size(Row) |-> Num(IF i = 1 THEN v1 ELSE v2)]),
                    Binning(1, NumCz), None, Some(5), None, fc)
       IN  Start(r.bufs, <<r.map>>, <<Made>>)

NextPoisson ==
    \/ SetPoissonErrors(1)
    \/ \E e \in {None, Some(Fill(Row, Num(1)))} : SetErrors(1, e)
    \/ SetItem(1, Tuple(<<IntC(0), IntC(0)>>), Num(-4))

SpecPoisson == InitPoisson /\ [][NextPoisson]_vars

(***************************************************************************)
(* SpecKeep: a Map a named x, with or without errors, with the hash 5 or   *)
(* none, and a Map b named y with the hash 6, each with or without         *)
(* full_comparison, go through one or two arithmetic operations or         *)
(* fluctuate, and a Map so made is compared with the Map it was made from. *)
(***************************************************************************)
InitKeep ==
    \E errors \in BOOLEAN,
       f \in {<<Some(5), FALSE, FALSE>>, <<Some(5), FALSE, TRUE>>,
              <<Some(5), TRUE, FALSE>>, <<None, FALSE, FALSE>>} :
       LET a == New(<<>>, "x", Ramp(Row), Binning(1, NumCz),
                    IF errors THEN Some(Fill(Row, Num(1))) ELSE None, f[1], None, f[2])
           b == New(a.bufs, "y", Fill(Row, Num(2)), Binning(1, NumCz), None,
                    Some(6), None, f[3])
       IN  Start(b.bufs, <<a.map, b.map>>, <<Made, Made>>)

\* The right-hand operands of SpecKeep.
Others == {MapArg(2), ScalarArg(Num(3)), ArrayArg(Fill(Row, Num(2)))}

NextKeep ==
    \/ \E i \in MapIds \ {2}, o \in Others : Len(maps) < 4 /\ Add(i, o)
    \/ \E o \in Others : Len(maps) < 3 /\ Sub(1, o)
    \/ \E o \in Others : Len(maps) < 3 /\ Mul(1, o)
    \/ \E o \in Others : Len(maps) < 3 /\ Div(1, o)
    \/ \E o \in Others : Len(maps) < 3 /\ Pow(1, o)
    \/ Len(maps) < 3 /\ RAdd(1, ScalarArg(Num(3)))
    \/ Len(maps) < 3 /\ RSub(1, ScalarArg(Num(3)))
    \/ Len(maps) < 3 /\ RMul(1, ScalarArg(Num(3)))
    \/ \E i \in MapIds \ {2} : Len(maps) < 4 /\ Neg(i)
    \/ Len(maps) < 3 /\ AbsOf(1)
    \/ Len(maps) < 3 /\ Sqrt(1)
    \/ Len(maps) < 3 /\ Log(1)
    \/ Len(maps) < 3 /\ Log10(1)
    \/ Len(maps) < 3 /\ Fluctuate(1, "poisson", {1})
    \/ \E p \in MapIds \ {1, 2} : Eq(p, MapArg(origin[p].self))

SpecKeep == InitKeep /\ [][NextKeep]_vars

(***************************************************************************)
(* SpecResult: of the five Maps of SpecSet, named x, y, x, y and z, two    *)
(* MapSets have been made, one named s that aligns by position, of x and   *)
(* y, and one without a name that aligns by name, of x and z.  MapSets are *)
(* combined with a scalar and with one another, sliced, and indexed by     *)
(* bins.                                                                   *)
(***************************************************************************)
InitResult ==
    LET B  == Binning(1, NumCz)
        m1 == New(<<>>, "x", Fill(Row, Num(1)), B, Some(Fill(Row, Num(1))), None, None, TRUE)
        m2 == New(m1.bufs, "y", Fill(Row, Num(2)), B, None, None, None, TRUE)
        m3 == New(m2.bufs, "x", Fill(Row, Num(3)), B, None, None, None, TRUE)
        m4 == New(m3.bufs, "y", Ramp(Row), B, Some(Fill(Row, Num(2))), None, None, TRUE)
        m5 == New(m4.bufs, "z", Fill(Row, Num(5)), B, None, None, None, TRUE)
    IN  /\ bufs = m5.bufs
        /\ maps = <<m1.map, m2.map, m3.map, m4.map, m5.map>>
        /\ origin = <<Made, Made, Made, Made, Made>>
        /\ sets = <<MapSet__init__(<<1, 2>>, Some("s"), None, FALSE),
                    MapSet__init__(<<3, 5>>, None, None, TRUE)>>
        /\ gens = <<>>
        /\ disk = None
        /\ calls = 0
        /\ ret = Ret("", 0, None, "", 0)

NextResult ==
    \/ \E s \in 1..Len(sets) : SetOp("__add__", s, ScalarArg(Num(2)))
    \/ \E s \in 1..Len(sets) : SetOp("__div__", s, SetArg(2))
    \/ \E s \in 1..Len(sets), c \in {<<0, 2>>, <<0, 1>>} :
          SetGetItem(s, [type |-> "slice", a |-> c[1], b |-> c[2]])
    \/ \E s \in 1..Len(sets),
          item \in {Tuple(<<IntC(0), SliceC(0, 2)>>), Tuple(<<IntC(0)>>),
                    Tuple(<<IntC(0), IntC(0), IntC(0)>>)} :
          SetGetItemSequence(s, item)

SpecResult == InitResult /\ [][NextResult]_vars

(***************************************************************************)
(* The properties.                                                         *)
(***************************************************************************)
\* The shape of the hist of maps[i] and the shape of its binning.
HistShape(i) == Read(bufs, maps[i].hist).sh

\* C1: whatever calls were made (Map(...), set_errors, set_poisson_errors,
\* m[idx] = val, m[idx], iterbins, fluctuate, the arithmetic operators),
\* every Map there is has a hist of the shape of its binning; and a call
\* Map(...) with a hist of another shape than the binning's raised the
\* shape error and returned no Map.
C1_ShapeInvariant ==
    /\ \A i \in MapIds : HistShape(i) = BinningShape(maps[i].binning)
    /\ (ret.op = "Map" /\ ret.arg.hist.sh # BinningShape(AsBinning(ret.arg.binning)))
          => (ret.err = "ShapeError" /\ ret.out = 0)

\* A mismatched Map(...) call has just failed while the heap holds a Map
\* built by the constructor and a Map made from it by another call.
C1_Witness ==
    /\ ret.op = "Map"
    /\ ret.arg.hist.sh # BinningShape(AsBinning(ret.arg.binning))
    /\ ret.err = "ShapeError"
    /\ \E i \in MapIds : origin[i].op # "Map"


\* The standard deviations of maps[i] are zero in every bin.
NoErrors(i) == \A k \in 1..Size(HistShape(i)) : StdDev(Read(bufs, maps[i].hist).c[k]) = Num(0)

\* C2: a Map read back with from_json from what to_json wrote of a Map m
\* equals m: m2 == m is true, and so is the full comparison of the two
\* states, as long as m is as it was written; and what to_json writes of a
\* Map whose standard deviations are all zero has a null error_hist.
C2_JsonRoundTrip ==
    /\ \A i \in MapIds :
          (/\ origin[i].op = "from_json"
           /\ origin[i].arg = to_json(serializable_state(bufs, maps[origin[i].self])))
          => /\ recursiveEquality(hashable_state(bufs, maps[i]),
                                  hashable_state(bufs, maps[origin[i].self]))
             /\ (ret.op = "__eq__" /\ ret.self = i /\ ret.arg.id = origin[i].self)
                   => (ret.err = "" /\ ret.out = TRUE)
    /\ (ret.op = "to_json" /\ NoErrors(ret.self)) => disk[1].file.error_hist = None

\* A Map with errors in some bins only was written, read back and compared
\* with the Map it was written from.
C2_Witness ==
    /\ ret.op = "__eq__"
    /\ origin[ret.self].op = "from_json"
    /\ origin[ret.self].arg = to_json(serializable_state(bufs, maps[ret.arg.id]))
    /\ ~NoErrors(ret.self)
    /\ \E k \in 1..Size(HistShape(ret.self)) :
          StdDev(Read(bufs, maps[ret.self].hist).c[k]) = Num(0)


\* The value and the standard deviation of bin k of maps[i], rounded to
\* HASH_SIGFIGS significant figures.
Rounded(i, k) ==
    LET cell == Read(bufs, maps[i].hist).c[k] IN
    <<normQuant(cell.n, HASH_SIGFIGS), normQuant(StdDev(cell), HASH_SIGFIGS)>>

\* maps[i] and maps[j] have the same name, tex, full_comparison and binning
\* and, rounded, the same value and standard deviation in every bin.
SameContents(i, j) ==
    /\ maps[i].name = maps[j].name
    /\ maps[i].tex = maps[j].tex
    /\ maps[i].full_comparison = maps[j].full_comparison
    /\ maps[i].binning.dims = maps[j].binning.dims
    /\ \A k \in 1..Size(HistShape(i)) : Rounded(i, k) = Rounded(j, k)

SameBins(p, q) ==
    /\ HistShape(p) = HistShape(q)
    /\ \A k \in 1..Size(HistShape(p)) :
          LET x == Read(bufs, maps[p].hist).c[k]
              y == Read(bufs, maps[q].hist).c[k]
          IN  x.n = y.n /\ StdDev(x) = StdDev(y)

\* C4, as the code has it: a + b and b + a, and a * b and b * a, have the
\* same value and standard deviation in every bin; compared with ==, the
\* two are equal exactly when a and b have the same name and tex, or, when
\* neither a nor b has full_comparison and both have a hash, exactly when
\* the hashes of a and b are equal (the result of an operator keeps the
\* name, tex and hash of its left operand).
C4_CommutativeBins ==
    \A p \in MapIds, q \in MapIds :
        Commuted(p, q)
        => /\ SameBins(p, q)
           /\ (ret.op = "__eq__" /\ ret.self = p /\ ret.arg.id = q)
                 => LET a == maps[origin[p].self]
                        b == maps[origin[q].self]
                    IN  /\ ret.err = ""
                        /\ ret.out = IF /\ ~a.full_comparison /\ ~b.full_comparison
                                        /\ a.hash # None /\ b.hash # None
                                     THEN a.hash = b.hash
                                     ELSE a.name = b.name /\ a.tex = b.tex

\* a * b and b * a were compared, a and b two Maps of different names with
\* errors, and came out unequal though they agree in every bin.
C4_Witness ==
    /\ ret.op = "__eq__"
    /\ Commuted(ret.self, ret.arg.id)
    /\ origin[ret.self].op = "__mul__"
    /\ maps[origin[ret.self].self].name # maps[origin[ret.arg.id].self].name
    /\ ~NoErrors(ret.self)
    /\ SameBins(ret.self, ret.arg.id)
    /\ ret.out = FALSE

\* C4 as stated: (a + b) == (b + a) and (a * b) == (b * a) are true for any
\* two Maps a and b on the same binning, their names different or not.
C4_AsStated ==
    (ret.op = "__eq__" /\ Commuted(ret.self, ret.arg.id))
    => (ret.out = TRUE /\ SameBins(ret.self, ret.arg.id))


\* C5: (m + 0) == m and (m * 1) == m are true, and m - m has the value 0
\* in every bin.
C5_Identities ==
    /\ (ret.op = "__eq__" /\ Identity(ret.self) /\ ret.arg.id = origin[ret.self].self)
          => (ret.err = "" /\ ret.out = TRUE)
    /\ \A p \in MapIds :
          (/\ origin[p].op = "__sub__"
           /\ origin[p].arg.type = "Map"
           /\ origin[p].arg.id = origin[p].self)
          => \A k \in 1..Size(HistShape(p)) : Read(bufs, maps[p].hist).c[k].n = Num(0)

\* m * 1 was compared with m, m a Map with errors, after m - m was made of
\* a Map with errors.
C5_Witness ==
    /\ ret.op = "__eq__"
    /\ Identity(ret.self)
    /\ origin[ret.self].op = "__mul__"
    /\ ret.arg.id = origin[ret.self].self
    /\ ret.out = TRUE
    /\ ~NoErrors(ret.self)
    /\ \E p \in MapIds :
          /\ origin[p].op = "__sub__"
          /\ origin[p].arg.id = origin[p].self
          /\ ~NoErrors(origin[p].self)


\* The value, the variance and the standard deviation of bin k of maps[i].
Val(i, k) == Read(bufs, maps[i].hist).c[k].n

Var(i, k) == SumVar(Read(bufs, maps[i].hist).c[k].d)

\* maps[i] is x +- s in every bin.
Everywhere(i, x, s) ==
    \A k \in 1..Size(HistShape(i)) :
        Val(i, k) = x /\ StdDev(Read(bufs, maps[i].hist).c[k]) = s

\* maps[p] was made by the call op on maps[i] with the operand o.
Is(p, op, i, o) == origin[p].op = op /\ origin[p].self = i /\ origin[p].arg = o

\* What C6 says of the Map maps[p], sd(k, s) being the standard deviation it
\* gives a Map multiplied or divided by k, of the standard deviation s.
PerBin(p, sd(_, _)) ==
    LET m == origin[p].self
        o == origin[p].arg
        bins == 1..Size(HistShape(p))
    IN  /\ (origin[p].op = "__add__" /\ o.type = "scalar")
              => \A k \in bins : /\ Val(p, k) = QAdd(Val(m, k), o.arr.c[1].n)
                                 /\ Var(p, k) = Var(m, k)
        /\ (origin[p].op = "__add__" /\ o.type = "Map" /\ NoErrors(o.id))
              => \A k \in bins : /\ Val(p, k) = QAdd(Val(m, k), Val(o.id, k))
                                 /\ Var(p, k) = Var(m, k)
        /\ (origin[p].op \in {"__mul__", "__rmul__"} /\ o.type = "scalar")
              => \A k \in bins :
                    /\ Val(p, k) = QMul(o.arr.c[1].n, Val(m, k))
                    /\ StdDev(Read(bufs, maps[p].hist).c[k])
                          = sd(o.arr.c[1].n, StdDev(Read(bufs, maps[m].hist).c[k]))
        /\ (origin[p].op = "__div__" /\ o.type = "scalar")
              => \A k \in bins :
                    /\ Val(p, k) = QDiv(Val(m, k), o.arr.c[1].n)
                    /\ StdDev(Read(bufs, maps[p].hist).c[k])
                          = sd(QInv(o.arr.c[1].n), StdDev(Read(bufs, maps[m].hist).c[k]))

\* The examples of C6: with a = 2 +- 1 and b = 3 +- 0, a + b is 5 +- 1 and
\* 2 * a is 4 +- 2; with m1 = 1 +- 1 and m2 = 2 +- 0, (2 * m1 + 8) / m2 is
\* 5 +- 1 and m1 / m2 is 0.5 +- 0.5.
Examples ==
    \A p \in MapIds :
        /\ (Everywhere(1, Num(2), Num(1)) /\ Everywhere(2, Num(3), Num(0)))
              => /\ Is(p, "__add__", 1, MapArg(2)) => Everywhere(p, Num(5), Num(1))
                 /\ Is(p, "__rmul__", 1, ScalarArg(Num(2))) => Everywhere(p, Num(4), Num(2))
        /\ (Everywhere(1, Num(1), Num(1)) /\ Everywhere(2, Num(2), Num(0)))
              => /\ Is(p, "__div__", 1, MapArg(2)) => Everywhere(p, Q(1, 2), Q(1, 2))
                 /\ (/\ origin[p].op = "__div__" /\ origin[p].arg = MapArg(2)
                     /\ Is(origin[p].self, "__add__", origin[origin[p].self].self,
                           ScalarArg(Num(8)))
                     /\ Is(origin[origin[p].self].self, "__rmul__", 1, ScalarArg(Num(2))))
                       => Everywhere(p, Num(5), Num(1))

\* C6, as the code has it: in every bin, adding a scalar or a Map without
\* uncertainty adds the values and leaves the standard deviation as it
\* was, and multiplying (dividing) by a scalar k other than 0 multiplies
\* (divides) the value by k and the standard deviation by |k|; the four
\* examples come out as stated.
C6_Propagation ==
    /\ \A p \in MapIds : PerBin(p, LAMBDA k, s : QMul(QAbs(k), s))
    /\ Examples

\* (2 * m1 + 8) / m2 was made, of m1 = 1 +- 1 and m2 = 2 +- 0.
C6_Witness ==
    /\ Everywhere(1, Num(1), Num(1))
    /\ Everywhere(2, Num(2), Num(0))
    /\ \E p \in MapIds :
          /\ origin[p].op = "__div__" /\ origin[p].arg = MapArg(2)
          /\ Is(origin[p].self, "__add__", origin[origin[p].self].self, ScalarArg(Num(8)))
          /\ Is(origin[origin[p].self].self, "__rmul__", 1, ScalarArg(Num(2)))
          /\ Everywhere(p, Num(5), Num(1))

\* C6 as stated: multiplying (dividing) by a scalar k multiplies (divides)
\* the standard deviation by k.
C6_AsStated ==
    /\ \A p \in MapIds : PerBin(p, LAMBDA k, s : QMul(k, s))
    /\ Examples


\* The element arithmetic of the Map method attr.
OpOf(attr) ==
    CASE attr = "__add__" -> "add"
      [] attr = "__sub__" -> "sub"
      [] attr = "__mul__" -> "mul"
      [] attr = "__div__" -> "div"

\* maps[p] is maps[i] op maps[j]: it has the name, tex and binning of
\* maps[i] and holds in every bin the result of op on the two bins.
Combines(p, attr, i, j) ==
    /\ maps[p].name = maps[i].name
    /\ maps[p].tex = maps[i].tex
    /\ maps[p].binning = maps[i].binning
    /\ HistShape(p) = HistShape(i)
    /\ \A k \in 1..Size(HistShape(p)) :
          Read(bufs, maps[p].hist).c[k]
             = ElemOp(OpOf(attr), Read(bufs, maps[i].hist).c[k], Read(bufs, maps[j].hist).c[k])

\* The position in the MapSet S of its first member named n, 0 if none.
FirstNamed(S, n) ==
    IF \E k \in 1..Len(S.maps) : maps[S.maps[k]].name = n
    THEN CHOOSE k \in 1..Len(S.maps) :
            /\ maps[S.maps[k]].name = n
            /\ \A l \in 1..(k - 1) : maps[S.maps[l]].name # n
    ELSE 0

\* C7: for A op B made through apply_to_maps, A and B MapSets: when A
\* aligns by name and B has a member of the name of every member of A,
\* member k of the result is A[k] op the member of B named as A[k], and
\* the member of the result found under a name n is A[n] op B[n]; when A
\* aligns by position and B has at least as many members as A, member k of
\* the result is A[k] op B[k] whatever the names, without error.
C7_Alignment ==
    (ret.op = "apply_to_maps" /\ ret.arg.arg.type = "MapSet")
    => LET A    == sets[ret.self]
           B    == sets[ret.arg.arg.id]
           attr == ret.arg.attr
           ks   == 1..Len(A.maps)
       IN  /\ (A.collate_by_name /\ \A k \in ks : FirstNamed(B, maps[A.maps[k]].name) # 0)
                 => /\ ret.err = ""
                    /\ Len(sets[ret.out].maps) = Len(A.maps)
                    /\ \A k \in ks :
                          LET n == maps[A.maps[k]].name IN
                          /\ Combines(sets[ret.out].maps[k], attr, A.maps[k],
                                      B.maps[FirstNamed(B, n)])
                          /\ Combines(sets[ret.out].maps[FirstNamed(sets[ret.out], n)], attr,
                                      A.maps[FirstNamed(A, n)], B.maps[FirstNamed(B, n)])
           /\ (~A.collate_by_name /\ Len(B.maps) >= Len(A.maps))
                 => /\ ret.err = ""
                    /\ Len(sets[ret.out].maps) = Len(A.maps)
                    /\ \A k \in ks :
                          Combines(sets[ret.out].maps[k], attr, A.maps[k], B.maps[k])

\* A / B was made without error, A aligning by position, of two members
\* each, the second members of A and B having different names.
C7_Witness ==
    /\ ret.op = "apply_to_maps"
    /\ ret.arg.arg.type = "MapSet"
    /\ ret.arg.attr = "__div__"
    /\ ret.err = ""
    /\ ~sets[ret.self].collate_by_name
    /\ Len(sets[ret.self].maps) = 2
    /\ maps[sets[ret.self].maps[2]].name # maps[sets[ret.arg.arg.id].maps[2]].name
    /\ Combines(sets[ret.out].maps[2], "__div__", sets[ret.self].maps[2],
                sets[ret.arg.arg.id].maps[2])


\* The component c of an index is valid on an axis of n bins.
ValidComp(c, n) == 0 <= c.a /\ c.a < c.b /\ c.b <= n

\* C8: m[idx], for an index idx of one valid component (an integer or a
\* slice) per axis, is a Map whose hist has the shape of its binning, which
\* is the number of bins each component selects, 1 for an integer (so a
\* Map of shape (4, 5) indexed by [0, 0:2] gives shape (1, 2)); and each of
\* its bins holds what m holds at the coordinates selected.
C8_Indexing ==
    (/\ ret.op = "__getitem__"
     /\ \A k \in 1..2 : ValidComp(ret.arg.comps[k], HistShape(ret.self)[k]))
    => /\ ret.err = ""
       /\ LET p   == ret.out
              m   == ret.self
              cs  == ret.arg.comps
              shp == <<cs[1].b - cs[1].a, cs[2].b - cs[2].a>>
          IN  /\ HistShape(p) = shp
              /\ BinningShape(maps[p].binning) = shp
              /\ BinningShape(BinningGetItem(maps[m].binning, ret.arg).binning) = shp
              /\ \A k \in 1..2 : cs[k].int => shp[k] = 1
              /\ (HistShape(m) = <<4, 5>> /\ ret.arg = Tuple(<<IntC(0), SliceC(0, 2)>>))
                    => HistShape(p) = <<1, 2>>
              /\ \A r \in 0..(shp[1] - 1), c \in 0..(shp[2] - 1) :
                    Read(bufs, maps[p].hist).c[r * shp[2] + c + 1]
                       = Read(bufs, maps[m].hist).c[(cs[1].a + r) * HistShape(m)[2]
                                                     + cs[2].a + c + 1]

\* The Map of shape (4, 5) was indexed by [0, 0:2] and a Map of shape
\* (1, 2) came out.
C8_Witness ==
    /\ ret.op = "__getitem__"
    /\ HistShape(ret.self) = <<4, 5>>
    /\ ret.arg = Tuple(<<IntC(0), SliceC(0, 2)>>)
    /\ ret.err = ""
    /\ HistShape(ret.out) = <<1, 2>>


\* The coordinates the generator G has yielded: those it yielded itself, or
\* the parent_indexer of each Map it yielded.
Yielded(G) ==
    [k \in 1..Len(G.out) |->
        IF G.kind = "bins" THEN maps[G.out[k]].parent_indexer[1] ELSE G.out[k]]

\* C9: a generator of iterbins or iterindices on a Map of N bins yields at
\* most N items and has yielded exactly N when it stops; the coordinates it
\* yields are coordinates of the Map in ascending row-major order (so none
\* comes twice, and iterbins and iterindices yield the same sequence), all
\* of them once it has stopped; and iterbins yields Maps of a single bin.
C9_IterOrder ==
    \A g \in 1..Len(gens) :
        LET G  == gens[g]
            sh == HistShape(G.m)
            cs == Yielded(G)
        IN  /\ Len(cs) <= Size(sh)
            /\ G.done => Len(cs) = Size(sh)
            /\ \A k \in 1..Len(cs) :
                  /\ cs[k][1] \in 0..(sh[1] - 1)
                  /\ cs[k][2] \in 0..(sh[2] - 1)
                  /\ G.kind = "bins" => HistShape(G.out[k]) = <<1, 1>>
            /\ \A j \in 1..Len(cs), k \in 1..Len(cs) :
                  j < k => \/ cs[j][1] < cs[k][1]
                           \/ cs[j][1] = cs[k][1] /\ cs[j][2] < cs[k][2]
            /\ G.done => {cs[k] : k \in 1..Len(cs)} = (0..(sh[1] - 1)) \X (0..(sh[2] - 1))

\* iterbins on a Map of more than one row and more than one column has
\* yielded a Map for every bin and has stopped.
C9_Witness ==
    \E g \in 1..Len(gens) :
        /\ gens[g].kind = "bins"
        /\ gens[g].done
        /\ HistShape(gens[g].m)[1] > 1
        /\ HistShape(gens[g].m)[2] > 1
        /\ Len(gens[g].out) = Size(HistShape(gens[g].m))
        /\ ret.err = "StopIteration"


\* The place in the row-major elements of a hist of the shape sh of the bin
\* at the coordinates idx_item.
Flat(sh, idx_item) == idx_item[1] * sh[2] + idx_item[2] + 1

\* C10: a call b[0, 0] = val that succeeds on a Map b that iterbins yielded
\* for the coordinates b.parent_indexer of its parent leaves the parent
\* with val in the bin at those coordinates, and with the value it had in
\* every other bin.
C10_AsStated ==
    [][ \A b \in MapIds :
          (/\ calls' = calls + 1
           /\ ret'.op = "__setitem__"
           /\ ret'.self = b
           /\ ret'.err = ""
           /\ origin[b].op = "next")
          => LET parent == origin[b].self
                 at     == Flat(HistShape(parent), maps[b].parent_indexer[1])
             IN  \A k \in 1..Size(HistShape(parent)) :
                    Val(parent, k)' = IF k = at THEN ret'.arg.val ELSE Val(parent, k)
      ]_vars

\* The operators that take a second operand.
Binary == {"__add__", "__sub__", "__mul__", "__div__", "__pow__"}

\* C11: the Map an operator + - * / ** made of the Map a and a Map operand b
\* has full_comparison set exactly when that of a or that of b is set; the
\* Map it made of a and a scalar or a plain array has the full_comparison
\* of a.
C11_FlagOr ==
    \A p \in MapIds :
        origin[p].op \in Binary =>
            LET a == maps[origin[p].self]
                o == origin[p].arg
            IN  maps[p].full_comparison =
                    IF o.type = "Map" THEN a.full_comparison \/ o.map.full_comparison
                    ELSE a.full_comparison

\* a ** b was made of a Map a without the flag and a Map b with it, and
\* a ** 2 of a Map a with the flag.
C11_Witness ==
    /\ \E p \in MapIds :
          /\ origin[p].op = "__pow__"
          /\ origin[p].arg.type = "Map"
          /\ ~maps[origin[p].self].full_comparison
          /\ origin[p].arg.map.full_comparison
          /\ maps[p].full_comparison
    /\ \E p \in MapIds :
          /\ origin[p].op = "__sub__"
          /\ origin[p].arg.type = "scalar"
          /\ ~maps[p].full_comparison

\* C12: a call of + - * / or ** on a Map with a Map operand whose binning
\* is not compatible with its own raised an error and returned no Map.
C12_AsStated ==
    (/\ ret.op \in Binary
     /\ ret.arg.type = "Map"
     /\ ~BinningCompat(maps[ret.self].binning, ret.arg.map.binning))
    => (ret.err # "" /\ ret.out = 0)

\* The operations of C13: the operators, their reflected forms, the
\* functions of one Map, and fluctuate.
Arithmetic ==
    Binary \cup {"__radd__", "__rsub__", "__rmul__", "__rdiv__",
                 "__neg__", "__abs__", "sqrt", "log", "log10", "fluctuate"}

\* maps[i] is an operand of the call that made maps[r].
OperandOf(i, r) ==
    \/ origin[r].self = i
    \/ /\ origin[r].op \in Binary
       /\ origin[r].arg.type = "Map"
       /\ origin[r].arg.id = i

\* C13: a call of an arithmetic operation or of fluctuate leaves every Map
\* there is, its operands among them, with the fields and the hist contents
\* it had, and the Map it returns is a new Map whose hist is stored where
\* no Map's hist was; and a write into a bin of a Map such a call returned
\* leaves the hist of the operands of that call as it was.
C13_Frame ==
    [][ \A i \in MapIds :
          /\ (calls' = calls + 1 /\ ret'.op \in Arithmetic)
                => /\ maps'[i] = maps[i]
                   /\ Read(bufs', maps[i].hist) = Read(bufs, maps[i].hist)
                   /\ ret'.err = ""
                        => /\ ret'.out = Len(maps) + 1
                           /\ maps'[Len(maps) + 1].hist.buf # maps[i].hist.buf
          /\ (/\ calls' = calls + 1
              /\ ret'.op = "__setitem__"
              /\ origin[ret'.self].op \in Arithmetic
              /\ OperandOf(i, ret'.self))
                => Read(bufs', maps[i].hist) = Read(bufs, maps[i].hist)
      ]_vars

\* 7 was written into the first bin of -a and a does not hold it.
C13_Witness ==
    /\ ret.op = "__setitem__"
    /\ ret.err = ""
    /\ origin[ret.self].op = "__neg__"
    /\ Val(ret.self, 1) = Num(7)
    /\ Val(origin[ret.self].self, 1) = Num(1)

\* C14: the Map m[idx] returned has the name, tex and full_comparison of m
\* and no hash, whatever the hash of m.
C14_AsStated ==
    \A p \in MapIds :
        origin[p].op = "__getitem__" =>
            LET m == maps[origin[p].self] IN
            /\ maps[p].name = m.name
            /\ maps[p].tex = m.tex
            /\ maps[p].full_comparison = m.full_comparison
            /\ maps[p].hash = None

\* C15: a call hash(m) returns m.hash when m has a hash and raises the
\* missing-hash error (ValueError) when it has none, and it changes
\* neither m nor any other Map.
C15_Hash ==
    [][ \A i \in MapIds :
          (ret'.op = "__hash__" /\ ret'.self = i)
            => /\ maps[i].hash # None => (ret'.err = "" /\ ret'.out = maps[i].hash[1])
               /\ maps[i].hash = None => (ret'.err = "ValueError" /\ ret'.out = 0)
               /\ maps' = maps
               /\ bufs' = bufs
      ]_vars

\* hash(m) raised for a Map without a hash after another Map was given the
\* hash 6.
C15_Witness ==
    /\ ret.op = "__hash__"
    /\ ret.err = "ValueError"
    /\ calls >= 2
    /\ \E i \in MapIds : i # ret.self /\ maps[i].hash = Some(6)

\* C16: a call of a reflected operator on a Map m for a scalar or a plain
\* array s returned a Map and did not fail: s + m holds s plus the value of
\* m in every bin and s * m s times it, as m + s and m * s do, s - m holds
\* s minus the value of m, and s / m holds s divided by the value of m.
C16_AsStated ==
    (/\ ret.op \in {"__radd__", "__rsub__", "__rmul__", "__rdiv__"}
     /\ ret.arg.type \in {"scalar", "ndarray"})
    => /\ ret.err = ""
       /\ ret.out \in MapIds
       /\ \A k \in 1..Size(HistShape(ret.self)) :
             LET s == BroadcastElem(ret.arg.arr, HistShape(ret.self), k).n
                 x == Val(ret.self, k)
             IN  Val(ret.out, k) =
                    CASE ret.op = "__radd__" -> QAdd(x, s)
                      [] ret.op = "__rmul__" -> QMul(x, s)
                      [] ret.op = "__rsub__" -> QSub(s, x)
                      [] ret.op = "__rdiv__" -> QDiv(s, x)

\* C17: a call m.fluctuate(method) with method '', 'none' or 'false' in any
\* case returned a new Map with the name, bin values, binning, hash, tex
\* and full_comparison of m, and a call with a method that is neither one
\* of these nor 'poisson' raised the unsupported-method error.
C17_AsStated ==
    ret.op = "fluctuate" =>
        LET method == Lower[ret.arg.method] IN
        /\ method \in {"", "none", "false"}
              => /\ ret.err = ""
                 /\ ret.out \in MapIds \ {ret.self}
                 /\ [maps[ret.out] EXCEPT !.hist = 0] = [maps[ret.self] EXCEPT !.hist = 0]
                 /\ Read(bufs, maps[ret.out].hist) = Read(bufs, maps[ret.self].hist)
        /\ method \notin {"", "none", "false", "poisson"} => ret.err = "Exception"

\* The positions (from 1) of the members of sets[s] named v.
Named(s, v) == {k \in 1..Len(sets[s].maps) : maps[sets[s].maps[k]].name = v}

\* C18: a lookup S[name] returns the member of S named so that comes first
\* in S, also when several members have that name, and raises the
\* not-found error (ValueError) when none has; it changes no MapSet and no
\* Map.
C18_FindFirst ==
    [][ \A s \in 1..Len(sets) :
          (/\ calls' = calls + 1
           /\ ret'.op = "MapSet.__getitem__"
           /\ ret'.self = s
           /\ ret'.arg.type = "str")
          => /\ sets' = sets
             /\ maps' = maps
             /\ bufs' = bufs
             /\ \A v \in {"x", "y", "z", "w"} :
                   ret'.arg.v = v =>
                      IF Named(s, v) = {} THEN ret'.err = "ValueError"
                      ELSE /\ ret'.err = ""
                           /\ ret'.out.kind = "Map"
                           /\ \E k \in Named(s, v) :
                                 /\ \A l \in Named(s, v) : k <= l
                                 /\ ret'.out.out = sets[s].maps[k]
      ]_vars

\* S['x'] returned the second member of a MapSet whose second and third
\* member are named x.
C18_Witness ==
    /\ ret.op = "MapSet.__getitem__"
    /\ ret.arg = [type |-> "str", v |-> "x"]
    /\ ret.err = ""
    /\ Cardinality(Named(ret.self, "x")) = 2
    /\ ret.out.out = sets[ret.self].maps[2]

\* The members of sets[s] the slice a:b selects, in their order.
Selected(s, a, b) ==
    LET n  == Len(sets[s].maps)
        hi == IF b > n THEN n ELSE b
    IN  [k \in 1..(IF hi > a THEN hi - a ELSE 0) |-> sets[s].maps[a + k]]

\* C19: a lookup S[i] of a position i of S returned the Map at that
\* position; a lookup S[a:b] that selects more than one member returned a
\* new MapSet of the members selected, in their order, and one that selects
\* exactly one member returned that Map itself.
C19_AsStated ==
    (ret.op = "MapSet.__getitem__" /\ ret.err = "")
    => LET S == sets[ret.self] IN
       /\ (ret.arg.type = "int" /\ ret.arg.v >= 0)
             => (ret.out.kind = "Map" /\ ret.out.out = S.maps[ret.arg.v + 1])
       /\ ret.arg.type = "slice"
             => LET sel == Selected(ret.self, ret.arg.a, ret.arg.b) IN
                /\ Len(sel) > 1 => /\ ret.out.kind = "MapSet"
                                   /\ ret.out.out > ret.self
                                   /\ sets[ret.out.out].maps = sel
                /\ Len(sel) = 1 => (ret.out.kind = "Map" /\ ret.out.out = sel[1])

\* The members of sets[s] and sets[t] agree one by one in their canonical
\* states, and so do the name, tex and collate_by_name of the two MapSets.
Agree(s, t) ==
    LET S == sets[s]
        T == sets[t]
    IN  /\ Len(S.maps) = Len(T.maps)
        /\ \A k \in 1..Len(S.maps) :
              recursiveEquality(hashable_state(bufs, maps[S.maps[k]]),
                                hashable_state(bufs, maps[T.maps[k]]))
        /\ S.name = T.name
        /\ S.tex = T.tex
        /\ S.collate_by_name = T.collate_by_name

\* C20 as stated: a == b for two MapSets is True exactly when the members
\* agree in order in their canonical states and the two MapSets have the same
\* name, tex and collate_by_name; MapSets with equal members and another name
\* or another alignment mode compare unequal.
C20_AsStated ==
    ret.op = "MapSet.__eq__" => (ret.out <=> Agree(ret.self, ret.arg))

\* C21: the MapSet that from_json makes of what to_json wrote of a MapSet
\* ms, as long as ms and its members are as they were written, equals ms
\* under ==, and has as many members in the same order with the same names
\* and canonical states, and the name, tex and collate_by_name of ms.
C21_SetRoundTrip ==
    (/\ ret.op = "MapSet.from_json"
     /\ ret.arg = MapSet_to_json(MapSet_serializable_state(bufs, maps, sets[ret.self])))
    => /\ ret.err = ""
       /\ MapSet__eq__(bufs, maps, sets[ret.out], sets[ret.self])
       /\ MapSet__eq__(bufs, maps, sets[ret.self], sets[ret.out])
       /\ Agree(ret.out, ret.self)
       /\ \A k \in 1..Len(sets[ret.self].maps) :
             /\ sets[ret.out].maps[k] > Len(maps) - Len(sets[ret.self].maps)
             /\ maps[sets[ret.out].maps[k]].name = maps[sets[ret.self].maps[k]].name

\* A MapSet named s that aligns by position, with three members, one of
\* them with errors, was written and read back.
C21_Witness ==
    /\ ret.op = "MapSet.from_json"
    /\ ret.err = ""
    /\ ret.arg = MapSet_to_json(MapSet_serializable_state(bufs, maps, sets[ret.self]))
    /\ sets[ret.self].name = Some("s")
    /\ ~sets[ret.self].collate_by_name
    /\ Len(sets[ret.out].maps) = 3
    /\ \E k \in 1..3 : ~NoErrors(sets[ret.out].maps[k])

\* The error of the first member of sets[s] for which apply_to_maps cannot
\* build the argument from arg, "" when it can for every member.
ArgError(s, arg) ==
    LET S   == sets[s]
        bad == {k \in 1..Len(S.maps) : this_map_args(maps, S, k - 1, arg).err # ""}
    IN  IF bad = {} THEN ""
        ELSE this_map_args(maps, S, (CHOOSE k \in bad : \A l \in bad : k <= l) - 1, arg).err

\* The error of the first member of sets[s] whose method attr raises for
\* its argument, "" when none does; the arguments can be built.
CallError(s, attr, arg) ==
    LET S   == sets[s]
        r(k) == Method(bufs, attr, maps[S.maps[k]], this_map_args(maps, S, k - 1, arg).arg)
        bad == {k \in 1..Len(S.maps) : r(k).err # ""}
    IN  IF bad = {} THEN "" ELSE r(CHOOSE k \in bad : \A l \in bad : k <= l).err

\* The MapSet sets[t] has no member named as some member of sets[s].
LacksName(s, t) ==
    \E k \in 1..Len(sets[s].maps) : FirstNamed(sets[t], maps[sets[s].maps[k]].name) = 0

\* C22: when apply_to_maps cannot build the argument of some member, or the
\* method of some member raises, the call raises that error, returns
\* nothing and leaves the MapSets and Maps as they were; A op B for A that
\* aligns by name and B without a member of the name of some member of A
\* raises ValueError.
C22_Propagation ==
    [][\A s \in 1..Len(sets) :
          (ret'.op = "apply_to_maps" /\ ret'.self = s)
          => LET a == ArgError(s, ret'.arg.arg)
                 c == IF a = "" THEN CallError(s, ret'.arg.attr, ret'.arg.arg) ELSE ""
             IN  /\ (a # "" \/ c # "")
                    => /\ ret'.err = (IF a # "" THEN a ELSE c)
                       /\ ret'.out = 0
                       /\ UNCHANGED <<bufs, maps, sets>>
                 /\ (/\ ret'.arg.arg.type = "MapSet"
                     /\ sets[s].collate_by_name
                     /\ LacksName(s, ret'.arg.arg.id))
                    => ret'.err = "ValueError"]_vars

\* The method of the second member raised although the first member's call
\* had returned a Map: no MapSet was returned.
C22_Witness ==
    /\ ret.op = "apply_to_maps"
    /\ ret.err = "ShapeError"
    /\ Len(sets[ret.self].maps) = 2
    /\ ArgError(ret.self, ret.arg.arg) = ""
    /\ Method(bufs, ret.arg.attr, maps[sets[ret.self].maps[1]],
              this_map_args(maps, sets[ret.self], 0, ret.arg.arg).arg).err = ""

\* How often each summand occurs in a sequence of summands: two sums of the
\* same summands in any order are the same sum.
Summands(seq) ==
    [t \in {seq[k] : k \in 1..Len(seq)} |-> Cardinality({k \in 1..Len(seq) : seq[k] = t})]

\* The metric value of every member of sets[s] against the expectation, in
\* member order.
MemberMetrics(s, expected_values, metric) ==
    [k \in 1..Len(sets[s].maps) |->
        Map_metric(bufs, metric, maps[sets[s].maps[k]],
                   this_map_args(maps, sets[s], k - 1, expected_values).arg).val]

\* C23 as stated: metric_total with metric chi2 or llh in any case, when
\* every member has an expectation, is the sum of the metric values of all
\* the members, also when members share a name; with another metric name it
\* raises ValueError.
C23_AsStated ==
    ret.op = "metric_total"
    => IF LowerMetric[ret.arg.metric] \in {"chi2", "llh"}
       THEN ArgError(ret.self, ret.arg.expected_values) = ""
            => /\ ret.err = ""
               /\ Summands(ret.out)
                  = Summands(MemberMetrics(ret.self, ret.arg.expected_values,
                                           LowerMetric[ret.arg.metric]))
       ELSE ret.err = "ValueError"

\* C24 as stated: m[idx] for an index of one component, a bare integer, a
\* bare slice or a tuple of one component, on a Map of two axes raises the
\* ValueError that says that 2D indexing is required, and no Map is made.
C24_AsStated ==
    [][\A i \in MapIds :
          (/\ ret'.op = "__getitem__"
           /\ ret'.self = i
           /\ Len(ret'.arg.comps) = 1
           /\ Len(maps[i].binning.dims) = 2)
          => (ret'.err = "ValueError" /\ UNCHANGED <<bufs, maps>>)]_vars

\* C25 as stated: ms.name = val and ms.tex = val for a string val return
\* without error, ms.name (ms.tex) is val afterwards, and the name (tex) of
\* every member is what it was.
C25_AsStated ==
    [][\A s \in 1..Len(sets) :
          (/\ ret'.op = "MapSet.__setattr__"
           /\ ret'.self = s
           /\ ret'.arg.attr \in {"name", "tex"}
           /\ ret'.arg.val.type = "str")
          => /\ ret'.err = ""
             /\ ret'.arg.attr = "name" => sets'[s].name = Some(ret'.arg.val.v)
             /\ ret'.arg.attr = "tex" => sets'[s].tex = ret'.arg.val.v
             /\ \A k \in 1..Len(sets[s].maps) :
                   /\ maps'[sets[s].maps[k]].name = maps[sets[s].maps[k]].name
                   /\ maps'[sets[s].maps[k]].tex = maps[sets[s].maps[k]].tex]_vars

\* maps[i] is in the second state what it is in the first, but for field f.
SameBut(i, f) ==
    /\ f # "name" => maps'[i].name = maps[i].name
    /\ f # "tex" => maps'[i].tex = maps[i].tex
    /\ f # "hash" => maps'[i].hash = maps[i].hash
    /\ f # "full_comparison" => maps'[i].full_comparison = maps[i].full_comparison
    /\ maps'[i].hist = maps[i].hist
    /\ maps'[i].binning = maps[i].binning
    /\ maps'[i].parent_indexer = maps[i].parent_indexer

\* C26: no call, whether an assignment to an attribute of a MapSet (maps
\* and collate_by_name among them) or a dispatched operation, changes the
\* members of an existing MapSet, their number or their order, nor its name,
\* tex and collate_by_name; ms.hash = v, and ms.full_comparison = v for a
\* bool v, set that field to v on every member and change no other field of
\* a member, no other Map, no array and no MapSet.
C26_MembersFixed ==
    [][/\ \A s \in 1..Len(sets) : sets'[s] = sets[s]
       /\ \A s \in 1..Len(sets) :
             (/\ ret'.op = "MapSet.__setattr__"
              /\ ret'.self = s
              /\ \/ ret'.arg.attr = "hash"
                 \/ ret'.arg.attr = "full_comparison" /\ ret'.arg.val.type = "bool")
             => LET members == {sets[s].maps[k] : k \in 1..Len(sets[s].maps)} IN
                /\ ret'.err = ""
                /\ \A i \in members :
                      /\ ret'.arg.attr = "hash"
                            => maps'[i].hash = (IF ret'.arg.val.type = "NoneType" THEN None
                                                ELSE Some(ret'.arg.val.v))
                      /\ ret'.arg.attr = "full_comparison"
                            => maps'[i].full_comparison = ret'.arg.val.v
                      /\ SameBut(i, ret'.arg.attr)
                /\ \A i \in MapIds \ members : maps'[i] = maps[i]
                /\ Len(maps') = Len(maps)
                /\ UNCHANGED <<bufs, sets>>]_vars

\* hash = 7 was assigned on a MapSet of three members that had been given
\* full_comparison = False before: every member has hash 7 and the flag off.
C26_Witness ==
    /\ ret.op = "MapSet.__setattr__"
    /\ ret.err = ""
    /\ ret.arg.attr = "hash"
    /\ Len(sets[ret.self].maps) = 3
    /\ \A k \in 1..3 : /\ maps[sets[ret.self].maps[k]].hash = Some(7)
                       /\ ~maps[sets[ret.self].maps[k]].full_comparison

\* C27 as stated: apply_to_maps with a method of every member, when it
\* returns, returns a new MapSet of as many members when the method returns
\* Maps, None when the method returns None, and else an ordered mapping of
\* one entry per member, in member order, the key the member's name and the
\* value what the member's method returned.
C27_AsStated ==
    (ret.op = "MapSet.apply_to_maps" /\ ret.err = "")
    => LET S == sets[ret.self]
           n == Len(S.maps)
       IN  IF ret.arg.attr \in {"chi2", "llh"}
           THEN LET vals == MemberMetrics(ret.self, ret.arg.arg, ret.arg.attr) IN
                /\ ret.out.kind = "OrderedDict"
                /\ Len(ret.out.out) = n
                /\ \A k \in 1..n : /\ ret.out.out[k].key = maps[S.maps[k]].name
                                   /\ ret.out.out[k].val = vals[k]
           ELSE IF ret.arg.attr = "set_poisson_errors"
           THEN ret.out.kind = "None"
           ELSE /\ ret.out.kind = "MapSet"
                /\ Len(sets[ret.out.out].maps) = n

\* C28 as stated: m.set_poisson_errors() on a Map without errors returns
\* without error; afterwards the standard deviation of every bin is
\* sqrt(max(v, 0)) for the nominal value v of the bin, which is 0 for a
\* negative v, and the nominal values, name, binning, hash, tex and
\* full_comparison of m are what they were.
C28_AsStated ==
    [][\A i \in MapIds :
          (/\ ret'.op = "set_poisson_errors"
           /\ ret'.self = i
           /\ ~Read(bufs, maps[i].hist).unc)
          => /\ ret'.err = ""
             /\ \A k \in 1..Size(HistShape(i)) :
                   LET v == Read(bufs, maps[i].hist).c[k].n IN
                   /\ (Read(bufs, maps[i].hist).c[k].n)' = v
                   /\ (StdDev(Read(bufs, maps[i].hist).c[k]))'
                         = QSqrt(IF v[1] < 0 THEN Num(0) ELSE v)
             /\ maps'[i].name = maps[i].name
             /\ maps'[i].binning = maps[i].binning
             /\ maps'[i].hash = maps[i].hash
             /\ maps'[i].tex = maps[i].tex
             /\ maps'[i].full_comparison = maps[i].full_comparison]_vars

\* C29: a Map p that an arithmetic operator, sqrt, log, log10, abs, unary -
\* or fluctuate('poisson') made from the Map m has the name, the tex and the
\* hash of m; and p == m is True when m has a hash and full_comparison is
\* False for m and, if the operand is a Map, for the operand, whatever the
\* bins of p hold.
C29_KeepsHash ==
    \A p \in MapIds :
       origin[p].op \in Arithmetic
       => LET m == origin[p].self IN
          /\ maps[p].name = maps[m].name
          /\ maps[p].tex = maps[m].tex
          /\ maps[p].hash = maps[m].hash
          /\ (/\ ret.op = "__eq__"
              /\ ret.self = p
              /\ ret.arg.id = m
              /\ maps[m].hash # None
              /\ ~maps[m].full_comparison
              /\ (origin[p].op \in Binary /\ origin[p].arg.type = "Map")
                    => ~maps[origin[p].arg.id].full_comparison)
             => (ret.err = "" /\ ret.out = TRUE)

\* a + b, for a with the hash 5 and full_comparison False on both, was
\* compared with a and found equal, although no bin of it holds what the
\* bin of a holds.
C29_Witness ==
    /\ ret.op = "__eq__"
    /\ ret.out = TRUE
    /\ origin[ret.self].op = "__add__"
    /\ origin[ret.self].arg.type = "Map"
    /\ ret.arg.id = origin[ret.self].self
    /\ maps[ret.self].hash = Some(5)
    /\ \A k \in 1..Size(HistShape(ret.self)) :
          Read(bufs, maps[ret.self].hist).c[k].n # Read(bufs, maps[ret.arg.id].hist).c[k].n

\* The MapSet sets[s] holds Maps that an operation returned.
IsResult(s) == \A k \in 1..Len(sets[s].maps) : origin[sets[s].maps[k]].op # "Map"

\* C30: the MapSet returned by an operator on a MapSet (through
\* apply_to_maps), by a slice of a MapSet and by indexing the bins of a
\* MapSet with two components has the name None, the tex of that name, and
\* collate_by_name True, whatever the MapSet it was made from has; and so
\* such a MapSet, combined with a MapSet that lacks a member of the name of
\* one of its members, raises ValueError, also when it was made from a
\* MapSet that aligns by position.
C30_ResultDefaults ==
    /\ (/\ ret.op \in {"apply_to_maps", "MapSet.__getitem__"}
        /\ ret.err = ""
        /\ ret.op = "MapSet.__getitem__" => ret.out.kind = "MapSet")
       => LET r == IF ret.op = "apply_to_maps" THEN ret.out ELSE ret.out.out IN
          /\ r > ret.self
          /\ sets[r].name = None
          /\ sets[r].tex = MapSet__init__(<<>>, None, None, TRUE).tex
          /\ sets[r].collate_by_name
          /\ ~sets[r].collate_by_num
    /\ (/\ ret.op = "apply_to_maps"
        /\ IsResult(ret.self)
        /\ ret.arg.arg.type = "MapSet"
        /\ LacksName(ret.self, ret.arg.arg.id))
       => ret.err = "ValueError"

\* ms + 2 was made of a MapSet ms named s that aligns by position, and its
\* division by a MapSet of as many members, of which the second has another
\* name, raised ValueError.
C30_Witness ==
    /\ ret.op = "apply_to_maps"
    /\ ret.err = "ValueError"
    /\ IsResult(ret.self)
    /\ Len(sets[ret.arg.arg.id].maps) = Len(sets[ret.self].maps)
    /\ \E a \in 1..Len(sets) :
          /\ ~sets[a].collate_by_name
          /\ sets[a].name = Some("s")
          /\ sets[a].maps = [k \in 1..Len(sets[ret.self].maps) |->
                               origin[sets[ret.self].maps[k]].self]
          /\ \A k \in 1..Len(sets[ret.self].maps) :
                origin[sets[ret.self].maps[k]].op = "__add__"

=============================================================================
